---- MODULE Spec2Model ----
(***************************************************************************)
(* Verification model of falcon_transfer: the HotFile write-back cache     *)
(* (src/src/hot_file/hot_file.rs), its range algebra                       *)
(* (src/src/hot_file/file_range.rs) and the LinkStateTable                 *)
(* (src/src/link/table.rs, link_state.rs, bond.rs, resume/scheduler.rs).   *)
(*                                                                         *)
(* A FileRange is the pair <<start, end>>.  Addresses are 0-based; a byte  *)
(* buffer is a sequence, so address a of a buffer that starts at s is      *)
(* element a - s + 1.  A byte written by write() is the sequence number of *)
(* that write (1, 2, ...), a zero byte is 0 and a byte of the file as it   *)
(* was found at open time is DiskByte.                                     *)
(***************************************************************************)
EXTENDS Integers, Sequences, FiniteSets, Bags, TLC

\* ---------------------------------------------------------------- bounds
MaxAddr == 4
MaxBufLen == 2
MaxWrites == 2
InitDiskLen == 2
MaxReads == 1
MaxConcWrites == 2
MaxLinks == 2
MaxAssign == 2
MaxEvictAssign == 4
MaxDangleAssign == 5
MaxNow == 2
ChannelCap == 3
MaxPos == 5
MaxSplitLen == 3
MaxSplitErrs == 2
MaxSrcLen == 5
MaxPayload == 1
MaxWire == 11
MaxBody == 9
MaxEvents == 3
\* HotFile::read under the lock discipline: the ranges of a mask, and the
\* parts of one of them that are read from the disk.
MaxSubRanges == 2
MaxDiskParts == 2
DiskByte == -1

\* ---------------------------------------------------------------- helpers
Min(a, b) == IF a < b THEN a ELSE b
Max(a, b) == IF a > b THEN a ELSE b
NONE == <<>>
Zeros(n) == [i \in 1..n |-> 0]
Fill(n, v) == [i \in 1..n |-> v]
EmptyMap == [k \in {} |-> <<>>]

\* ------------------------------------------------------------- FileRange
interval(r) == r[2] - r[1]

intersect(a, b) ==
    LET start == Max(a[1], b[1])
        end == Min(a[2], b[2])
    IN IF start < end THEN <<start, end>> ELSE NONE

\* impl Ord for FileRange: by start, then by end.
KeyLE(a, b) == a[1] < b[1] \/ (a[1] = b[1] /\ a[2] <= b[2])

MinKey(S) == CHOOSE k \in S : \A j \in S : KeyLE(k, j)

RECURSIVE SortedKeys(_)
SortedKeys(S) ==
    IF S = {} THEN <<>>
    ELSE LET m == MinKey(S) IN <<m>> \o SortedKeys(S \ {m})

\* ------------------------------------------------------- FileMultiRange
\* slice::partition_point on a partitioned list: the first 0-based index
\* whose element fails the predicate (holds[j] = the predicate at element j).
PartitionPoint(holds) ==
    CHOOSE i \in 0..Len(holds) :
        /\ \A j \in 1..i : holds[j]
        /\ (i < Len(holds) => ~holds[i + 1])

\* FileMultiRange::add that merges overlapping ranges only, not touching
\* ones.
add_OverlapOnly(inner0, range) ==
    LET inner == IF inner0 = <<>> THEN <<range>> ELSE inner0
        left == PartitionPoint([j \in 1..Len(inner) |-> inner[j][2] <= range[1]])
        right == PartitionPoint([j \in 1..Len(inner) |-> inner[j][1] < range[2]])
    IN IF left < right
       THEN LET first == <<Min(inner[left + 1][1], range[1]),
                           Max(inner[right][2], range[2])>>
            IN SubSeq(inner, 1, left) \o <<first>>
                   \o SubSeq(inner, right + 1, Len(inner))
       ELSE SubSeq(inner, 1, left) \o <<range>>
                \o SubSeq(inner, left + 1, Len(inner))

\* FileMultiRange::add that takes the end of the merged range from the first
\* touched range instead of the last.
add_EndOfFirst(inner0, range) ==
    LET inner == IF inner0 = <<>> THEN <<range>> ELSE inner0
        left == PartitionPoint([j \in 1..Len(inner) |-> inner[j][2] < range[1]])
        right == PartitionPoint([j \in 1..Len(inner) |-> inner[j][1] <= range[2]])
    IN IF left < right
       THEN LET first == <<Min(inner[left + 1][1], range[1]),
                           Max(inner[left + 1][2], range[2])>>
            IN SubSeq(inner, 1, left) \o <<first>>
                   \o SubSeq(inner, right + 1, Len(inner))
       ELSE SubSeq(inner, 1, left) \o <<range>>
                \o SubSeq(inner, left + 1, Len(inner))

add(inner0, range) ==
    LET inner == IF inner0 = <<>> THEN <<range>> ELSE inner0
        left == PartitionPoint([j \in 1..Len(inner) |-> inner[j][2] < range[1]])
        right == PartitionPoint([j \in 1..Len(inner) |-> inner[j][1] <= range[2]])
    IN IF left < right
       THEN LET first == <<Min(inner[left + 1][1], range[1]),
                           Max(inner[right][2], range[2])>>
            IN SubSeq(inner, 1, left) \o <<first>>
                   \o SubSeq(inner, right + 1, Len(inner))
       ELSE SubSeq(inner, 1, left) \o <<range>>
                \o SubSeq(inner, left + 1, Len(inner))

\* TryFrom<&[T]> for FileMultiRange with T = FileRange: add_checked each.
RECURSIVE AddAll(_, _, _)
AddAll(inner, ranges, i) ==
    IF i > Len(ranges) THEN inner
    ELSE AddAll(add(inner, ranges[i]), ranges, i + 1)

MultiRangeFrom(ranges) == AddAll(<<>>, ranges, 1)

\* The while-let loop of subtract that always steps to the next range of
\* `other`, also past one that reaches beyond `cur`.
RECURSIVE SubtractSweep_StepPast(_, _, _, _)
SubtractSweep_StepPast(cur, other, j, res) ==
    IF j > Len(other) THEN [res |-> res, j |-> j, cur |-> cur]
    ELSE LET sub == other[j] IN
         IF sub[2] <= cur[1] THEN SubtractSweep_StepPast(cur, other, j + 1, res)
         ELSE IF sub[1] >= cur[2] THEN [res |-> res, j |-> j, cur |-> cur]
         ELSE LET res1 == IF cur[1] < sub[1]
                          THEN Append(res, <<cur[1], sub[1]>>) ELSE res
                  cur1 == <<Max(cur[1], sub[2]), cur[2]>>
              IN IF cur1[1] >= cur1[2]
                 THEN [res |-> res1, j |-> j + 1, cur |-> cur1]
                 ELSE SubtractSweep_StepPast(cur1, other, j + 1, res1)

\* The while-let loop of subtract for one range `cur` of self, with the
\* shared peekable iterator of `other` standing at index j.
RECURSIVE SubtractSweep(_, _, _, _)
SubtractSweep(cur, other, j, res) ==
    IF j > Len(other) THEN [res |-> res, j |-> j, cur |-> cur]
    ELSE LET sub == other[j] IN
         IF sub[2] <= cur[1] THEN SubtractSweep(cur, other, j + 1, res)
         ELSE IF sub[1] >= cur[2] THEN [res |-> res, j |-> j, cur |-> cur]
         ELSE LET res1 == IF cur[1] < sub[1]
                          THEN Append(res, <<cur[1], sub[1]>>) ELSE res
                  cur1 == <<Max(cur[1], sub[2]), cur[2]>>
              IN IF cur1[1] >= cur1[2]
                 THEN [res |-> res1, j |-> j, cur |-> cur1]
                 ELSE IF sub[2] > cur1[2]
                 THEN [res |-> res1, j |-> j, cur |-> cur1]
                 ELSE SubtractSweep(cur1, other, j + 1, res1)

RECURSIVE SubtractFrom(_, _, _, _, _)
SubtractFrom(self, other, i, j, res) ==
    IF i > Len(self) THEN res
    ELSE LET sw == SubtractSweep(self[i], other, j, res)
             res1 == IF sw.cur[1] < sw.cur[2]
                     THEN Append(sw.res, sw.cur) ELSE sw.res
         IN SubtractFrom(self, other, i + 1, sw.j, res1)

subtract(self, other) == SubtractFrom(self, other, 1, 1, <<>>)

\* FileMultiRange::intersect that steps both iterators after every pair.
RECURSIVE IntersectFrom_Zip(_, _, _, _, _)
IntersectFrom_Zip(self, other, i, j, res) ==
    IF i > Len(self) \/ j > Len(other) THEN res
    ELSE LET r == intersect(self[i], other[j])
         IN IntersectFrom_Zip(self, other, i + 1, j + 1,
                              IF r # NONE THEN Append(res, r) ELSE res)

\* The while-let loop of FileMultiRange::intersect with the two peekable
\* iterators standing at i and j.
RECURSIVE IntersectFrom(_, _, _, _, _)
IntersectFrom(self, other, i, j, res) ==
    IF i > Len(self) \/ j > Len(other) THEN res
    ELSE LET a == self[i]
             b == other[j]
             start == Max(a[1], b[1])
             end == Min(a[2], b[2])
             res1 == IF start < end THEN Append(res, <<start, end>>) ELSE res
         IN IF a[2] < b[2] THEN IntersectFrom(self, other, i + 1, j, res1)
            ELSE IF a[2] > b[2] THEN IntersectFrom(self, other, i, j + 1, res1)
            ELSE IntersectFrom(self, other, i + 1, j + 1, res1)

multi_intersect(self, other) == IntersectFrom(self, other, 1, 1, <<>>)

\* usize::MAX, scaled: one more than the largest offset of the model, so
\* that current + n overflows for the longest pieces only.
UsizeMax == MaxPos + 1

\* usize::checked_add, with -1 for None
checked_add(a, b) == IF a + b > UsizeMax THEN -1 ELSE a + b

\* std::ops::Bound<usize>
Included(v) == [kind |-> "Included", v |-> v]
Excluded(v) == [kind |-> "Excluded", v |-> v]
Unbounded == [kind |-> "Unbounded", v |-> 0]

RangeErr(e) == [res |-> e, start |-> 0, end |-> 0]
RangeOk(s, e) == [res |-> "Ok", start |-> s, end |-> e]

\* FileRange::try_new that lets the empty range pass (start <= end).
try_new_AllowEmpty(start, end) ==
    IF start <= end THEN RangeOk(start, end) ELSE RangeErr("InvalidRange")

\* FileRange::try_new
try_new(start, end) ==
    IF start < end THEN RangeOk(start, end) ELSE RangeErr("InvalidRange")

\* One side of extract_range_bounds: the bound made half-open, or the error;
\* `closed` is the kind of bound that has to be moved by one.
BoundValue(b, closed) ==
    IF b.kind = "Unbounded" THEN RangeErr("IndexUnbounded")
    ELSE IF b.kind = closed
    THEN IF checked_add(b.v, 1) < 0 THEN RangeErr("IndexOverflow")
         ELSE RangeOk(checked_add(b.v, 1), 0)
    ELSE RangeOk(b.v, 0)

\* extract_range_bounds that looks at the end bound before the start bound.
extract_range_bounds_EndFirst(start, end) ==
    LET s == BoundValue(start, "Excluded")
        e == BoundValue(end, "Included")
    IN IF e.res # "Ok" THEN RangeErr(e.res)
       ELSE IF s.res # "Ok" THEN RangeErr(s.res)
       ELSE IF s.start < e.start THEN RangeOk(s.start, e.start)
       ELSE RangeErr("InvalidRange")

\* extract_range_bounds on the pair that to_bound_pair gives: the start
\* bound is settled (with `?`) before the end bound is looked at.
extract_range_bounds(start, end) ==
    LET s == BoundValue(start, "Excluded")
        e == BoundValue(end, "Included")
    IN IF s.res # "Ok" THEN RangeErr(s.res)
       ELSE IF e.res # "Ok" THEN RangeErr(e.res)
       ELSE IF s.start < e.start THEN RangeOk(s.start, e.start)
       ELSE RangeErr("InvalidRange")

\* The from_fn closure of split that cuts every piece n long, also past the
\* end of the range.
FromFnNext_NoClamp(end, current, n) ==
    IF current >= end THEN [item |-> "None", piece |-> <<>>, current |-> current]
    ELSE IF n = 0 THEN [item |-> "Ok", piece |-> <<current, end>>, current |-> end]
    ELSE LET next == checked_add(current, n)
         IN IF next < 0
            THEN [item |-> "IndexOverflow", piece |-> <<>>, current |-> current]
            ELSE [item |-> "Ok", piece |-> <<current, next>>, current |-> next]

\* The from_fn closure of split for one stored range ending at `end`: the
\* item it yields and its `current` afterwards.
FromFnNext(end, current, n) ==
    IF current >= end THEN [item |-> "None", piece |-> <<>>, current |-> current]
    ELSE IF n = 0 THEN [item |-> "Ok", piece |-> <<current, end>>, current |-> end]
    ELSE LET next == checked_add(current, n)
         IN IF next < 0
            THEN [item |-> "IndexOverflow", piece |-> <<>>, current |-> current]
            ELSE LET slice_end == Min(next, end)
                 IN [item |-> "Ok", piece |-> <<current, slice_end>>,
                     current |-> slice_end]

\* Iterator::next of inner.iter().flat_map(..): the closure of range i is
\* asked first; when it is exhausted the next range is taken.
RECURSIVE FlatMapNext(_, _, _, _)
FlatMapNext(inner, i, current, n) ==
    LET f == IF i = 0 THEN [item |-> "None", piece |-> <<>>, current |-> current]
             ELSE FromFnNext(inner[i][2], current, n)
    IN IF f.item # "None"
       THEN [item |-> f.item, piece |-> f.piece, i |-> i, current |-> f.current]
       ELSE IF i >= Len(inner)
       THEN [item |-> "None", piece |-> <<>>, i |-> i, current |-> current]
       ELSE FlatMapNext(inner, i + 1, inner[i + 1][1], n)

\* The number of stored ranges that add finds overlapping or touching the
\* new one (right - left).
Touched(inner0, range) ==
    LET inner == IF inner0 = <<>> THEN <<range>> ELSE inner0
        left == PartitionPoint([j \in 1..Len(inner) |-> inner[j][2] < range[1]])
        right == PartitionPoint([j \in 1..Len(inner) |-> inner[j][1] <= range[2]])
    IN right - left

\* The offsets a list of ranges covers, each range being [start, end).
Cover(inner) == UNION {inner[i][1]..(inner[i][2] - 1) : i \in 1..Len(inner)}

\* The canonical form: no empty range, ascending, neither overlapping nor
\* touching.
Canonical(inner) ==
    /\ \A i \in 1..Len(inner) : inner[i][1] < inner[i][2]
    /\ \A i \in 1..(Len(inner) - 1) : inner[i][2] < inner[i + 1][1]

\* -------------------------------------------------------------- MsgCodec
HDR_LEN == 3
PROTOCOL_VERSION == 0
NumVariants == 4

\* The values of a byte, scaled down from 256.
ByteBase == 4
Bytes == 0..(ByteBase - 1)

\* u16::MAX for a length of two such bytes.
U16Max == ByteBase * ByteBase - 1

\* Msg, scaled: the variant and one byte vector that stands for its fields,
\* each of its bytes the smallest or the largest byte.
Msgs ==
    {[tag |-> t, payload |-> p] :
        t \in 0..(NumVariants - 1),
        p \in UNION {[1..n -> {0, ByteBase - 1}] : n \in 0..MaxPayload}}

NoMsg == [tag |-> 0, payload |-> <<>>]

\* The variable-length integer of bincode's standard configuration: one byte
\* below the marker, else the marker and the value as a little-endian u16.
VarintMarker == ByteBase - 1
VarintEncode(n) ==
    IF n < VarintMarker THEN <<n>>
    ELSE <<VarintMarker, n % ByteBase, n \div ByteBase>>

\* bincode::encode_to_vec with the standard configuration: the variant
\* index, then the vector as its length followed by its bytes.
BincodeEncode(m) == <<m.tag>> \o VarintEncode(Len(m.payload)) \o m.payload

\* bincode::decode_from_slice: bytes after the value are left unread.
BincodeDecode(body) ==
    IF Len(body) < 1 THEN [ok |-> FALSE, msg |-> NoMsg]
    ELSE IF body[1] >= NumVariants THEN [ok |-> FALSE, msg |-> NoMsg]
    ELSE IF Len(body) < 2 THEN [ok |-> FALSE, msg |-> NoMsg]
    ELSE IF body[2] = VarintMarker
    THEN IF Len(body) < 4 THEN [ok |-> FALSE, msg |-> NoMsg]
         ELSE LET n == body[3] + body[4] * ByteBase
              IN IF Len(body) < 4 + n THEN [ok |-> FALSE, msg |-> NoMsg]
                 ELSE [ok |-> TRUE,
                       msg |-> [tag |-> body[1],
                                payload |-> SubSeq(body, 5, 4 + n)]]
    ELSE IF Len(body) < 2 + body[2] THEN [ok |-> FALSE, msg |-> NoMsg]
    ELSE [ok |-> TRUE,
          msg |-> [tag |-> body[1], payload |-> SubSeq(body, 3, 2 + body[2])]]

\* u16::to_be_bytes / u16::from_be_bytes
ToBeBytes(n) == <<n \div ByteBase, n % ByteBase>>
FromBeBytes(hi, lo) == hi * ByteBase + lo

\* MsgCodec::encode that writes the length of the body as the length.
encode_BodyLen(item) ==
    LET msg_buf == BincodeEncode(item)
        total_len == Len(msg_buf) + HDR_LEN
    IN IF total_len > U16Max THEN [ok |-> FALSE, bytes |-> <<>>]
       ELSE [ok |-> TRUE,
             bytes |-> ToBeBytes(Len(msg_buf)) \o <<PROTOCOL_VERSION>> \o msg_buf]

\* MsgCodec::encode that casts the length to u16 instead of converting it.
encode_Wrapping(item) ==
    LET msg_buf == BincodeEncode(item)
        total_len == Len(msg_buf) + HDR_LEN
    IN [ok |-> TRUE,
        bytes |-> ToBeBytes(total_len % (U16Max + 1)) \o <<PROTOCOL_VERSION>>
                     \o msg_buf]

\* MsgCodec::encode: what it appends to dst, or the length overflow.
encode(item) ==
    LET msg_buf == BincodeEncode(item)
        total_len == Len(msg_buf) + HDR_LEN
    IN IF total_len > U16Max THEN [ok |-> FALSE, bytes |-> <<>>]
       ELSE [ok |-> TRUE,
             bytes |-> ToBeBytes(total_len) \o <<PROTOCOL_VERSION>> \o msg_buf]

\* BytesMut::advance / the rest after BytesMut::split_to
Advance(buf, n) == SubSeq(buf, n + 1, Len(buf))

\* MsgCodec::decode that leaves a datagram of another version in src.
decode_KeepOtherVersion(buf) ==
    IF Len(buf) < HDR_LEN THEN [res |-> "None", item |-> NoMsg, src |-> buf]
    ELSE LET msg_len == FromBeBytes(buf[1], buf[2])
             protocol_version == buf[3]
         IN IF Len(buf) < msg_len
            THEN [res |-> "None", item |-> NoMsg, src |-> buf]
            ELSE IF protocol_version # PROTOCOL_VERSION
            THEN [res |-> "None", item |-> NoMsg, src |-> buf]
            ELSE IF msg_len < HDR_LEN
            THEN [res |-> "panic", item |-> NoMsg, src |-> Advance(buf, msg_len)]
            ELSE LET d == BincodeDecode(SubSeq(buf, HDR_LEN + 1, msg_len))
                 IN IF d.ok
                    THEN [res |-> "Some", item |-> d.msg,
                          src |-> Advance(buf, msg_len)]
                    ELSE [res |-> "Err", item |-> NoMsg,
                          src |-> Advance(buf, msg_len)]

\* MsgCodec::decode: the result and src afterwards.  Ok(None) is "None",
\* Ok(Some(msg)) is "Some", Err is "Err"; the slice [HDR_LEN..] of a
\* datagram shorter than the header panics, after split_to has taken it.
decode(buf) ==
    IF Len(buf) < HDR_LEN THEN [res |-> "None", item |-> NoMsg, src |-> buf]
    ELSE LET msg_len == FromBeBytes(buf[1], buf[2])
             protocol_version == buf[3]
         IN IF Len(buf) < msg_len
            THEN [res |-> "None", item |-> NoMsg, src |-> buf]
            ELSE IF protocol_version # PROTOCOL_VERSION
            THEN [res |-> "None", item |-> NoMsg, src |-> Advance(buf, msg_len)]
            ELSE IF msg_len < HDR_LEN
            THEN [res |-> "panic", item |-> NoMsg, src |-> Advance(buf, msg_len)]
            ELSE LET d == BincodeDecode(SubSeq(buf, HDR_LEN + 1, msg_len))
                 IN IF d.ok
                    THEN [res |-> "Some", item |-> d.msg,
                          src |-> Advance(buf, msg_len)]
                    ELSE [res |-> "Err", item |-> NoMsg,
                          src |-> Advance(buf, msg_len)]

\* --------------------------------------------------------------- state
VARIABLES
    disk,            \* contents of the file behind HotFile.disk
    dirty,           \* HotFile.dirty: FileRange -> Bytes
    sync_len_state,  \* HotFile.sync_len_state
    ver,             \* number of write() calls started
    latest,          \* address -> sequence number of the last write over it
    disk0,           \* the file as open_new / open_existed found it
    last,            \* the last completed call, its arguments and result
    reads,           \* number of read() calls made
    writers,         \* each running write(): where it stands, what it holds
    syncers,         \* each running sync(): where it stands, what it holds

    hist,            \* what has happened so far (history variable)
    links,           \* LinkStateTable.links: HostId -> Bond
    link,            \* the LinkState allocations, by allocation number
    closures,        \* solve closures handed out and not yet called, per link
    removing,        \* solve calls that stand before links.remove(&host_id)
    chan,            \* the channel into the resume scheduler
    delay_queue,     \* the scheduler's DelayQueue
    now,             \* the wall clock, in seconds
    nassign,         \* number of assign() calls made
    lhist,           \* what has happened to each link (history variable)
    lastl,           \* the last completed assign() or solve() and its result
    tasks,           \* the resume tasks submitted so far (history variable)
    mr_a,            \* a FileMultiRange: its inner list
    mr_b,            \* a second FileMultiRange: its inner list
    mr_added,        \* the offsets added to each so far (history variable)
    mr_last,         \* the last call on them and its result
    split_it,        \* the iterator returned by mr_a.split(n), if any
    conv_last,       \* the last FileRange construction and its result
    dec_src,         \* the BytesMut the decoder reads from (src)
    wire,            \* encoded bytes on their way to dec_src
    dec_last,        \* the last decode() call and its result
    codec_hist,      \* the messages encoded and decoded (history variable)
    dirty_lock,      \* who holds the guard of HotFile.dirty's Mutex
    disk_lock,       \* who holds the guard of HotFile.disk's Mutex
    running,         \* each task's call on the HotFile: where it stands
    has_dirty,       \* whether HotFile.dirty has entries
    lock_hist,       \* what the calls have done so far (history variable)
    deact,           \* one LinkState whose deacitve is called, and the result
    enc_last,        \* the last encode() call, its dst before and after
    outbound         \* the Outbound worker: events taken, the last outcome

hfvars == <<disk, dirty, sync_len_state, ver, latest, disk0, last, reads>>
ccvars == <<writers, syncers, hist>>
lkvars == <<links, link, closures, removing, chan, delay_queue, now, nassign,
            lhist, lastl, tasks>>
mrvars == <<mr_a, mr_b, mr_added, mr_last, split_it, conv_last>>
cdvars == <<dec_src, wire, dec_last, codec_hist>>
lockvars == <<dirty_lock, disk_lock, running, has_dirty, lock_hist>>
obvars == <<deact, enc_last, outbound>>
vars == <<hfvars, ccvars, lkvars, mrvars, cdvars, lockvars, obvars>>

Writers == {"w1", "w2"}
Syncers == {"s1", "s2"}


\* -------------------------------------------------------- HotFile::write
InsertKey(d, k, v) == [x \in (DOMAIN d) \cup {k} |-> IF x = k THEN v ELSE d[x]]
RemoveKeys(d, ks) == [x \in (DOMAIN d) \ ks |-> d[x]]

\* Overlapped with the range query started at buf_rgn.start: an entry that
\* begins before the written range is not collected.
Overlapped_StartInside(d, buf_rgn) ==
    LET hit == {k \in DOMAIN d :
                   /\ buf_rgn[1] <= k[1]
                   /\ k[1] <= buf_rgn[2]
                   /\ intersect(k, buf_rgn) # NONE}
        keys == SortedKeys(hit)
    IN [i \in 1..Len(keys) |-> <<keys[i], d[keys[i]]>>]

\* dirty.range((Unbounded, Included(FileRange::new(buf_rgn.end, usize::MAX))))
\* keeps the keys k <= (buf_rgn.end, usize::MAX), i.e. those that start at or
\* before buf_rgn.end; the filter keeps the ones that intersect buf_rgn.
Overlapped(d, buf_rgn) ==
    LET hit == {k \in DOMAIN d :
                   /\ k[1] <= buf_rgn[2]
                   /\ intersect(k, buf_rgn) # NONE}
        keys == SortedKeys(hit)
    IN [i \in 1..Len(keys) |-> <<keys[i], d[keys[i]]>>]

MergedRgn(overlapped, buf_rgn) ==
    LET starts == {overlapped[i][1][1] : i \in 1..Len(overlapped)} \cup {buf_rgn[1]}
        ends == {overlapped[i][1][2] : i \in 1..Len(overlapped)} \cup {buf_rgn[2]}
    IN <<CHOOSE s \in starts : \A t \in starts : s <= t,
         CHOOSE e \in ends : \A t \in ends : e >= t>>

\* merged_buf[pos .. pos + |src|].copy_from_slice(src)
CopyAt(buf, pos, src) ==
    [i \in 1..Len(buf) |->
        IF i > pos /\ i <= pos + Len(src) THEN src[i - pos] ELSE buf[i]]

RECURSIVE CopyOverlapped(_, _, _, _)
CopyOverlapped(buf, overlapped, i, merged_start) ==
    IF i > Len(overlapped) THEN buf
    ELSE CopyOverlapped(
             CopyAt(buf, overlapped[i][1][1] - merged_start, overlapped[i][2]),
             overlapped, i + 1, merged_start)

MergedBuf(overlapped, buf_rgn, buf) ==
    LET merged_rgn == MergedRgn(overlapped, buf_rgn)
        old == CopyOverlapped(Zeros(interval(merged_rgn)), overlapped, 1,
                              merged_rgn[1])
    IN CopyAt(old, buf_rgn[1] - merged_rgn[1], buf)

\* The second critical section of write: drop the collected entries, insert
\* the merged one.
WriteReplace(d, overlapped, buf_rgn, buf) ==
    InsertKey(RemoveKeys(d, {overlapped[i][1] : i \in 1..Len(overlapped)}),
              MergedRgn(overlapped, buf_rgn),
              MergedBuf(overlapped, buf_rgn, buf))

\* sync_len_state.store(merged_rgn.end) in the place of fetch_max.
FetchMax_Store(len, overlapped, buf_rgn) == MergedRgn(overlapped, buf_rgn)[2]

\* sync_len_state.fetch_max(merged_rgn.end, Ordering::Relaxed)
FetchMax(len, overlapped, buf_rgn) == Max(len, MergedRgn(overlapped, buf_rgn)[2])

\* --------------------------------------------------------- HotFile::sync
Snapshot(d) ==
    LET keys == SortedKeys(DOMAIN d)
    IN [i \in 1..Len(keys) |-> <<keys[i], d[keys[i]]>>]

\* set_len(target_len) when the file is shorter than target_len.
SetLen(f, target_len) ==
    IF Len(f) < target_len THEN f \o Zeros(target_len - Len(f)) ELSE f

\* WriteAt without the seek: every buffer goes to where the previous
\* write_all left the cursor, the first one to the start of the file.
WriteAt_NoSeek(f, pos, buf) ==
    [i \in 1..Max(Len(f), Len(buf)) |->
        IF i <= Len(buf) THEN buf[i] ELSE f[i]]

\* seek(SeekFrom::Start(pos)) then write_all(buf): the file grows when the
\* write ends beyond its end, a hole before pos reads as zeros.
WriteAt(f, pos, buf) ==
    [i \in 1..Max(Len(f), pos + Len(buf)) |->
        IF i > pos /\ i <= pos + Len(buf) THEN buf[i - pos]
        ELSE IF i <= Len(f) THEN f[i] ELSE 0]

\* The write loop of sync after its first n entries.
RECURSIVE FlushEntries(_, _, _)
FlushEntries(f, snapshot, n) ==
    IF n = 0 THEN f
    ELSE WriteAt(FlushEntries(f, snapshot, n - 1),
                 snapshot[n][1][1], snapshot[n][2])

\* The disk section of a sync that meets no I/O error.
Flush(f, target_len, snapshot) ==
    FlushEntries(SetLen(f, target_len), snapshot, Len(snapshot))

\* The points at which the disk section can fail, and what is on disk then:
\* metadata / set_len fail before anything is written; seek or write_all of
\* entry n fails after entries 1..n-1 and a prefix of entry n went out;
\* sync_all fails after every entry went out.
FailPoints(snapshot) ==
    {[at |-> "metadata", n |-> 0, part |-> 0],
     [at |-> "set_len", n |-> 0, part |-> 0],
     [at |-> "sync_all", n |-> Len(snapshot), part |-> 0]}
    \cup {[at |-> "write_all", n |-> n, part |-> p] :
             n \in 1..Len(snapshot), p \in 0..MaxBufLen}

FlushFailed(f, target_len, snapshot, fp) ==
    IF fp.at \in {"metadata", "set_len"} THEN f
    ELSE IF fp.at = "sync_all" THEN Flush(f, target_len, snapshot)
    ELSE LET done == FlushEntries(SetLen(f, target_len), snapshot, fp.n - 1)
             e == snapshot[fp.n]
             part == Min(fp.part, Len(e[2]) - 1)
         IN IF part = 0 THEN done
            ELSE WriteAt(done, e[1][1], SubSeq(e[2], 1, part))

\* Cleanup that stops one entry short of the end of the snapshot.
Cleanup_KeepLast(d, snapshot) ==
    RemoveKeys(d, {snapshot[i][1] : i \in 1..(Len(snapshot) - 1)})

\* The cleanup section of sync: dirty_guard.remove(rgn) for each snapshot key.
Cleanup(d, snapshot) ==
    RemoveKeys(d, {snapshot[i][1] : i \in 1..Len(snapshot)})

\* The dirty map after a failed sync with the cleanup run all the same.
DirtyAfterIoError_Cleans(d, snapshot) == Cleanup(d, snapshot)

\* The dirty map after a sync whose disk section failed: `?` returns the
\* error before the cleanup section is reached.
DirtyAfterIoError(d, snapshot) == d

\* --------------------------------------------------------- HotFile::read
\* read_disk_by_range after the OutOfFile check, for read_start <= read_end:
\* the bytes on disk up to min(disk_len, rgn.end), then zeros.
ReadDiskByRange(f, rgn) ==
    [i \in 1..interval(rgn) |->
        IF rgn[1] + i <= Len(f) THEN f[rgn[1] + i] ELSE 0]

\* FileRange::new(read_start, read_end).interval() with read_end =
\* min(disk_len, rgn.end) < read_start: end - start underflows usize.  A
\* debug build panics on the subtraction; a release build wraps to a huge
\* length and panics on buf[0..len].  Either way the call panics.
DiskReadPanics(f, rgn) == Min(Len(f), rgn[2]) < rgn[1]

DiskReadOutOfFile(len, rgn) == rgn[2] > len

\* The dirty segments of one sub-range of the mask: intersection -> slice of
\* the dirty buffer (collected into a HashMap keyed by the intersection).
DirtySegs(d, sub_rgn) ==
    LET hit == {k \in DOMAIN d :
                   /\ k[1] <= sub_rgn[2]
                   /\ intersect(sub_rgn, k) # NONE}
        ovlps == {intersect(sub_rgn, k) : k \in hit}
        Src(o) == CHOOSE k \in hit :
                     /\ intersect(sub_rgn, k) = o
                     /\ \A j \in hit : intersect(sub_rgn, j) = o => KeyLE(j, k)
    IN [o \in ovlps |->
           SubSeq(d[Src(o)], o[1] - Src(o)[1] + 1, o[2] - Src(o)[1])]

\* All iteration orders of a HashMap's keys.
Orderings(S) ==
    {f \in [1..Cardinality(S) -> S] : \A i, j \in DOMAIN f : f[i] = f[j] => i = j}

\* One iteration of the loop of read over the mask; `order` is the order in
\* which the HashMap hands out the dirty keys.
ReadSub(d, f, len, sub_rgn, order) ==
    LET segs == DirtySegs(d, sub_rgn)
        dirty_mask == MultiRangeFrom(order)
        disk_mask == subtract(<<sub_rgn>>, dirty_mask)
        disk_rgns == {disk_mask[i] : i \in 1..Len(disk_mask)}
        oof == \E r \in disk_rgns : DiskReadOutOfFile(len, r)
        pnc == \E r \in disk_rgns :
                   ~DiskReadOutOfFile(len, r) /\ DiskReadPanics(f, r)
        keys == SortedKeys(DOMAIN segs \cup disk_rgns)
        Piece(r) == IF r \in DOMAIN segs THEN segs[r] ELSE ReadDiskByRange(f, r)
    IN [oof |-> oof, panic |-> pnc,
        chunk |-> IF oof \/ pnc THEN <<>>
                  ELSE [i \in 1..Len(keys) |-> Piece(keys[i])]]

\* read(mask): sub-ranges in order; the first one that fails ends the call.
\* `orders[i]` is the HashMap order met in iteration i.  Within one
\* iteration try_join_all returns the first error it polls, so when one disk
\* range panics and another is out of file either can come first: the
\* result is the set of outcomes.
RECURSIVE ReadFrom(_, _, _, _, _, _)
ReadFrom(d, f, len, mask, orders, i) ==
    IF i > Len(mask) THEN {[res |-> "Ok", out |-> <<>>, raced |-> FALSE]}
    ELSE LET one == ReadSub(d, f, len, mask[i], orders[i])
             both == one.oof /\ one.panic
         IN IF one.oof \/ one.panic
            THEN {[res |-> r, out |-> <<>>, raced |-> both] :
                     r \in {x \in {"OutOfFile"} : one.oof}
                               \cup {x \in {"panic"} : one.panic}}
            ELSE {IF rest.res = "Ok"
                  THEN [rest EXCEPT !.out = one.chunk \o rest.out]
                  ELSE rest : rest \in ReadFrom(d, f, len, mask, orders, i + 1)}

ReadOrders(d, mask) ==
    {o \in [1..Len(mask) -> UNION {Orderings(DOMAIN DirtySegs(d, mask[i])) :
                                      i \in 1..Len(mask)}] :
        \A i \in 1..Len(mask) : o[i] \in Orderings(DOMAIN DirtySegs(d, mask[i]))}

\* ------------------------------------------------- calls run one at a time
WriteRanges ==
    {<<o, o + n>> : o \in 0..MaxAddr, n \in 0..MaxBufLen}
        \cap ((0..MaxAddr) \X (0..MaxAddr))

\* Canonical masks over the cells 0..MaxAddr (one cell past the last
\* writable address, so that a mask can reach beyond logical_length).
MaskOf(cells) ==
    SortedKeys({<<s, CHOOSE e \in (s + 1)..(MaxAddr + 1) :
                        /\ e \notin cells
                        /\ \A x \in s..(e - 1) : x \in cells>> :
                s \in {c \in cells : (c - 1) \notin cells}})

Masks == {MaskOf(cells) : cells \in (SUBSET (0..MaxAddr)) \ {{}}}

NoCall == [op |-> "open", rgn |-> NONE, mask |-> <<>>, res |-> "Ok",
           out |-> <<>>, snap |-> <<>>, raced |-> FALSE]

Called(op, rgn, mask, res, out, snap) ==
    [op |-> op, rgn |-> rgn, mask |-> mask, res |-> res, out |-> out,
     snap |-> snap, raced |-> FALSE]

Stamp(l, rgn, v) ==
    [a \in DOMAIN l |-> IF a >= rgn[1] /\ a < rgn[2] THEN v ELSE l[a]]

InitLinkVars ==
    /\ links = EmptyMap
    /\ link = <<>>
    /\ closures = <<>>
    /\ removing = EmptyBag
    /\ chan = <<>>
    /\ delay_queue = {}
    /\ now = 1
    /\ nassign = 0
    /\ lhist = <<>>
    /\ lastl = [op |-> "new", host |-> "", pair |-> "", id |-> 0, res |-> "Ok",
                r |-> 0, cands |-> <<>>, prefix |-> <<>>, tid |-> 0]
    /\ tasks = <<>>

IdleWriter == [pc |-> "idle", rgn |-> NONE, buf |-> <<>>, overlapped |-> <<>>]
IdleSyncer == [pc |-> "idle", snapshot |-> <<>>, target_len |-> 0]
NoHist == [synced |-> FALSE, overlapping_writes |-> FALSE,
           flushed |-> [a \in 0..MaxAddr |-> 0]]

InitMultiRange ==
    /\ mr_a = <<>>
    /\ mr_b = <<>>
    /\ mr_added = [a |-> {}, b |-> {}]
    /\ mr_last = [op |-> "new", out |-> <<>>, touched |-> 0]

NoDecode == [res |-> "new", item |-> NoMsg, before |-> <<>>]

InitCodec ==
    /\ dec_src = <<>>
    /\ wire = <<>>
    /\ dec_last = NoDecode
    /\ codec_hist = [pending |-> <<>>, mismatch |-> FALSE]

Readers == {"r1"}
Free == "free"
IdleTask == [pc |-> "idle", subs |-> 0, parts |-> 0, during |-> FALSE]
NoLockHist == [write_in_flush |-> FALSE]

InitLock ==
    /\ dirty_lock = Free
    /\ disk_lock = Free
    /\ running = [t \in Writers \cup Syncers \cup Readers |-> IdleTask]
    /\ has_dirty = FALSE
    /\ lock_hist = NoLockHist

NoSplit == [n |-> 0, i |-> 0, current |-> 0, item |-> "idle", out |-> <<>>,
            errs |-> 0]

InitSplit == split_it = NoSplit

NoConv == [op |-> "new", a |-> Unbounded, b |-> Unbounded, out |-> RangeOk(0, 0)]

InitConv == conv_last = NoConv

NoDeact == [op |-> "new", l |-> [host |-> "h1", pair |-> "p1", metric |-> 0,
                                failure_count |-> 0, is_healthy |-> TRUE,
                                last_used |-> 0],
            before |-> 0, task |-> "None", timeout |-> 0]
NoEncode == [res |-> "new", item |-> NoMsg, before |-> <<>>, dst |-> <<>>]
NoOutbound == [events |-> 0, res |-> "new", id |-> 0]

InitOb ==
    /\ deact = NoDeact
    /\ enc_last = NoEncode
    /\ outbound = NoOutbound

InitHotFile ==
    /\ disk0 \in {<<>>, Fill(InitDiskLen, DiskByte)}
    /\ disk = disk0
    /\ dirty = EmptyMap
    /\ sync_len_state = Len(disk0)
    /\ ver = 0
    /\ latest = [a \in 0..MaxAddr |-> 0]
    /\ last = NoCall
    /\ reads = 0
    /\ writers = [w \in Writers |-> IdleWriter]
    /\ syncers = [s \in Syncers |-> IdleSyncer]
    /\ hist = NoHist
    /\ InitLinkVars
    /\ InitMultiRange
    /\ InitSplit
    /\ InitConv
    /\ InitCodec
    /\ InitLock
    /\ InitOb

\* write(buf, offset) from start to end, buf = the bytes of write ver + 1.
Write(rgn) ==
    /\ ver < MaxWrites
    /\ IF try_new(rgn[1], rgn[2]).res = "Ok"
       THEN LET overlapped == Overlapped(dirty, rgn)
                buf == Fill(interval(rgn), ver + 1)
            IN /\ sync_len_state' = FetchMax(sync_len_state, overlapped, rgn)
               /\ dirty' = WriteReplace(dirty, overlapped, rgn, buf)
               /\ ver' = ver + 1
               /\ latest' = Stamp(latest, rgn, ver + 1)
               /\ last' = Called("write", rgn, <<>>, "Ok", <<>>, <<>>)
       ELSE /\ last' = Called("write", rgn, <<>>, "InvalidRange", <<>>, <<>>)
            /\ UNCHANGED <<sync_len_state, dirty, ver, latest>>
    /\ UNCHANGED <<disk, disk0, reads, ccvars, lkvars, mrvars, cdvars, lockvars, obvars>>

\* sync() from start to end, no I/O error.
Sync ==
    /\ IF DOMAIN dirty = {}
       THEN /\ last' = Called("sync", NONE, <<>>, "Ok", <<>>, <<>>)
            /\ UNCHANGED <<disk, dirty>>
       ELSE LET snapshot == Snapshot(dirty)
            IN /\ disk' = Flush(disk, sync_len_state, snapshot)
               /\ dirty' = Cleanup(dirty, snapshot)
               /\ last' = Called("sync", NONE, <<>>, "Ok", <<>>, snapshot)
    /\ UNCHANGED <<sync_len_state, ver, latest, disk0, reads, ccvars, lkvars, mrvars, cdvars, lockvars, obvars>>

\* sync() from start to end, with an I/O error at fp.
SyncIoError ==
    /\ DOMAIN dirty # {}
    /\ \E fp \in FailPoints(Snapshot(dirty)) :
          /\ disk' = FlushFailed(disk, sync_len_state, Snapshot(dirty), fp)
          /\ last' = Called("sync", NONE, <<>>, "IoError", <<>>, Snapshot(dirty))
    /\ dirty' = DirtyAfterIoError(dirty, Snapshot(dirty))
    /\ UNCHANGED <<sync_len_state, ver, latest, disk0, reads, ccvars, lkvars, mrvars, cdvars, lockvars, obvars>>

\* read(mask) from start to end.
Read ==
    /\ reads < MaxReads
    /\ reads' = reads + 1
    /\ \E mask \in Masks :
          \E orders \in ReadOrders(dirty, mask) :
             \E r \in ReadFrom(dirty, disk, sync_len_state, mask, orders, 1) :
                last' = [Called("read", NONE, mask, r.res, r.out, <<>>)
                            EXCEPT !.raced = r.raced]
    /\ UNCHANGED <<disk, dirty, sync_len_state, ver, latest, disk0, ccvars, lkvars, mrvars, cdvars, lockvars, obvars>>

NextSeq ==
    \/ \E rgn \in WriteRanges : Write(rgn)
    \/ Sync
    \/ SyncIoError

SpecSeq == InitHotFile /\ [][NextSeq]_vars

NextRead ==
    \/ \E rgn \in WriteRanges : Write(rgn)
    \/ Sync
    \/ Read

SpecRead == InitHotFile /\ [][NextRead]_vars

\* ------------------------------------------------------ concurrent calls
\* A call is cut where it takes or releases a lock or touches the atomic:
\* what it does while holding one lock is one step.

\* write: first critical section on `dirty` (collect the overlapped entries).
WriteCollect(w, rgn) ==
    /\ writers[w].pc = "idle"
    /\ ver < MaxConcWrites
    /\ rgn[1] < rgn[2]
    /\ ver' = ver + 1
    /\ writers' = [writers EXCEPT ![w] =
                      [pc |-> "fetch_max", rgn |-> rgn,
                       buf |-> Fill(interval(rgn), ver + 1),
                       overlapped |-> Overlapped(dirty, rgn)]]
    /\ hist' = [hist EXCEPT !.overlapping_writes =
                   @ \/ \E v \in Writers : writers[v].pc # "idle"]
    /\ UNCHANGED <<lkvars, mrvars, cdvars, lockvars, obvars, disk, dirty, sync_len_state, latest, disk0, last, reads,
                   syncers>>

\* write: sync_len_state.fetch_max(merged_rgn.end)
WriteFetchMax(w) ==
    /\ writers[w].pc = "fetch_max"
    /\ sync_len_state' = FetchMax(sync_len_state, writers[w].overlapped,
                                  writers[w].rgn)
    /\ writers' = [writers EXCEPT ![w].pc = "replace"]
    /\ UNCHANGED <<lkvars, mrvars, cdvars, lockvars, obvars, disk, dirty, ver, latest, disk0, last, reads, syncers, hist>>

\* write: second critical section on `dirty` (remove, insert), then return.
WriteInsert(w) ==
    /\ writers[w].pc = "replace"
    /\ dirty' = WriteReplace(dirty, writers[w].overlapped, writers[w].rgn,
                             writers[w].buf)
    /\ latest' = Stamp(latest, writers[w].rgn, writers[w].buf[1])
    /\ writers' = [writers EXCEPT ![w].pc = "idle"]
    /\ UNCHANGED <<lkvars, mrvars, cdvars, lockvars, obvars, disk, sync_len_state, ver, disk0, last, reads, syncers, hist>>

\* sync: first critical section on `dirty` (early return, or snapshot).
SyncSnapshot(s) ==
    /\ syncers[s].pc = "idle"
    /\ DOMAIN dirty # {}
    /\ syncers' = [syncers EXCEPT ![s] =
                      [pc |-> "flush", snapshot |-> Snapshot(dirty),
                       target_len |-> sync_len_state]]
    /\ hist' = [hist EXCEPT !.synced = TRUE]
    /\ UNCHANGED <<lkvars, mrvars, cdvars, lockvars, obvars, hfvars, writers>>

\* sync: the critical section on `disk`.
SyncFlush(s) ==
    /\ syncers[s].pc = "flush"
    /\ disk' = Flush(disk, syncers[s].target_len, syncers[s].snapshot)
    /\ syncers' = [syncers EXCEPT ![s].pc = "cleanup"]
    /\ UNCHANGED <<lkvars, mrvars, cdvars, lockvars, obvars, dirty, sync_len_state, ver, latest, disk0, last, reads,
                   writers, hist>>

\* sync: second critical section on `dirty` (remove the snapshot's keys),
\* then return Ok.
SyncCleanup(s) ==
    /\ syncers[s].pc = "cleanup"
    /\ dirty' = Cleanup(dirty, syncers[s].snapshot)
    /\ syncers' = [syncers EXCEPT ![s] = IdleSyncer]
    /\ hist' = [hist EXCEPT !.flushed =
                   [a \in DOMAIN @ |->
                       LET snap == syncers[s].snapshot
                           vs == {snap[i][2][a - snap[i][1][1] + 1] :
                                     i \in {j \in 1..Len(snap) :
                                               snap[j][1][1] <= a /\ a < snap[j][1][2]}}
                                 \cup {@[a]}
                       IN CHOOSE x \in vs : \A y \in vs : x >= y]]
    /\ UNCHANGED <<lkvars, mrvars, cdvars, lockvars, obvars, disk, sync_len_state, ver, latest, disk0, last, reads, writers>>

NextConc ==
    \/ \E w \in Writers, rgn \in WriteRanges : WriteCollect(w, rgn)
    \/ \E w \in Writers : WriteFetchMax(w)
    \/ \E w \in Writers : WriteInsert(w)
    \/ \E s \in Syncers : SyncSnapshot(s)
    \/ \E s \in Syncers : SyncFlush(s)
    \/ \E s \in Syncers : SyncCleanup(s)

SpecConc == InitHotFile /\ [][NextConc]_vars

\* One sync() cut at its locks, next to a reader; every write has returned
\* before the sync starts.
WriteBeforeSync(rgn) == ~hist.synced /\ Write(rgn)

SyncOnce(s) == ~hist.synced /\ SyncSnapshot(s)

NextSyncRead ==
    \/ \E rgn \in WriteRanges : WriteBeforeSync(rgn)
    \/ SyncOnce("s1")
    \/ SyncFlush("s1")
    \/ SyncCleanup("s1")
    \/ Read

SpecSyncRead == InitHotFile /\ [][NextSyncRead]_vars

\* Two tasks that call write, with no sync in between.
NextWriters ==
    \/ \E w \in Writers, rgn \in WriteRanges : WriteCollect(w, rgn)
    \/ \E w \in Writers : WriteFetchMax(w)
    \/ \E w \in Writers : WriteInsert(w)

SpecWriters == InitHotFile /\ [][NextWriters]_vars

\* ------------------------------------------------------- LinkStateTable
Hosts == {"h1"}
Pairs == {"p1", "p2"}      \* the (local, remote) endpoint pairs
WeightScale == 1000000
U8 == 256

\* impl Hash for LinkState: every field goes into the hash, the atomics too.
HashOf(l) == <<l.pair, l.metric, l.failure_count, l.is_healthy, l.last_used>>

\* LinkState::new
NewLinkState(h, p, metric) ==
    [host |-> h, pair |-> p, metric |-> metric, failure_count |-> 0,
     is_healthy |-> TRUE, last_used |-> 0]

weight(l) == WeightScale \div (l.metric + 1)

\* A LinkState lives as long as a bond holds its Arc.
InBond(h, id) ==
    h \in DOMAIN links /\ \E i \in 1..Len(links[h].links) : links[h].links[i].id = id
Alive(id) == \E h \in Hosts : InBond(h, id)

\* IndexSet::insert of a fresh Arc: the entry keeps the hash computed now.
NewEntry(id, l) == [id |-> id, hash |-> HashOf(l)]

LinkCalled(op, h, p, id, res) ==
    [op |-> op, host |-> h, pair |-> p, id |-> id, res |-> res, r |-> 0,
     cands |-> <<>>, prefix |-> <<>>, tid |-> 0]

NewLinkHist == [solved |-> 0, total |-> 0]

\* IndexSet::insert: the value is appended unless an entry with the same
\* stored hash is equal to it (LinkState::eq compares every field).
IndexSetInsert(entries, id, l) ==
    IF \E i \in 1..Len(entries) :
          entries[i].hash = HashOf(l) /\ link[entries[i].id] = l
    THEN [links |-> entries, ret |-> FALSE]
    ELSE [links |-> Append(entries, NewEntry(id, l)), ret |-> TRUE]

\* Bond::update without the search for a member with the same addresses.
BondUpdate_NoSearch(entries, id, l) == IndexSetInsert(entries, id, l)

\* Bond::update: the links of the bond afterwards and the value returned.
BondUpdate(entries, id, l) ==
    IF \E i \in 1..Len(entries) : link[entries[i].id].pair = l.pair
    THEN [links |-> entries, ret |-> FALSE]
    ELSE IndexSetInsert(entries, id, l)

\* LinkStateTable::update -> Bond::update / Bond::new
Update(h, p) ==
    /\ LET id == Len(link) + 1
           l == NewLinkState(h, p, 0)
           u == IF h \in DOMAIN links
                THEN BondUpdate(links[h].links, id, l)
                ELSE [links |-> <<NewEntry(id, l)>>, ret |-> TRUE]
       IN IF u.ret
          THEN /\ Len(link) < MaxLinks
               /\ link' = Append(link, l)
               /\ links' = IF h \in DOMAIN links
                           THEN [links EXCEPT ![h].links = u.links]
                           ELSE InsertKey(links, h,
                                    [links |-> u.links, flag |-> "DISCOVED"])
               /\ closures' = Append(closures, 0)
               /\ lhist' = Append(lhist, NewLinkHist)
          ELSE UNCHANGED <<links, link, closures, lhist>>
    /\ UNCHANGED <<hfvars, ccvars, mrvars, cdvars, lockvars, obvars, removing, chan, delay_queue, now, nassign,
                   lastl, tasks>>

\* Candidates without the health filter.
Candidates_All(h) ==
    [i \in 1..Len(links[h].links) |-> links[h].links[i].id]

\* The healthy links of a bond, in bond order.
Candidates(h) ==
    SelectSeq([i \in 1..Len(links[h].links) |-> links[h].links[i].id],
              LAMBDA id : link[id].is_healthy)

RECURSIVE PrefixWeights(_, _)
PrefixWeights(cands, n) ==
    IF n = 0 THEN <<>>
    ELSE LET before == PrefixWeights(cands, n - 1)
         IN Append(before, (IF n = 1 THEN 0 ELSE before[n - 1])
                               + weight(link[cands[n]]))

\* weight_distributes.binary_search_by(|probe| probe.cmp(&selected))
\*     .unwrap_or_else(|i| i), as a 1-based index.
SelectedIndex(prefix, selected) ==
    IF \E i \in 1..Len(prefix) : prefix[i] = selected
    THEN CHOOSE i \in 1..Len(prefix) : prefix[i] = selected
    ELSE 1 + Cardinality({i \in 1..Len(prefix) : prefix[i] < selected})

\* What assign(h) answers.
AssignResult(h) ==
    IF h \notin DOMAIN links THEN "BondNotFound"
    ELSE IF Candidates(h) = <<>>
              \/ PrefixWeights(Candidates(h), Len(Candidates(h)))
                     [Len(Candidates(h))] = 0
         THEN "LinksNotFound"
         ELSE "Ok"

\* The draws of rng.random_range(0..total_weight) that the model tries: the
\* values next to each prefix sum.
Draws(prefix) ==
    {r \in {0} \cup {prefix[i] - 1 : i \in 1..Len(prefix)}
           \cup {prefix[i] : i \in 1..Len(prefix)} :
        r >= 0 /\ r < prefix[Len(prefix)]}

\* LinkStateTable::assign, as long as fewer than `most` calls were made.
\* An Ok result stamps last_used and hands out a solve closure for the
\* selected link.
AssignWithin(h, most) ==
    /\ nassign < most
    /\ nassign' = nassign + 1
    /\ IF AssignResult(h) # "Ok"
       THEN /\ lastl' = LinkCalled("assign", h, "", 0, AssignResult(h))
            /\ UNCHANGED <<link, closures>>
       ELSE LET cands == Candidates(h)
                prefix == PrefixWeights(cands, Len(cands))
            IN \E r \in Draws(prefix) :
                  LET idx == SelectedIndex(prefix, r)
                  IN /\ idx <= Len(cands)
                     /\ link' = [link EXCEPT ![cands[idx]].last_used = now]
                     /\ closures' = [closures EXCEPT ![cands[idx]] = @ + 1]
                     /\ lastl' = [LinkCalled("assign", h, link[cands[idx]].pair,
                                             cands[idx], "Ok")
                                    EXCEPT !.r = r, !.cands = cands,
                                           !.prefix = prefix]
    /\ UNCHANGED <<hfvars, ccvars, mrvars, cdvars, lockvars, obvars, links, removing, chan, delay_queue, now,
                   lhist, tasks>>

Assign(h) == AssignWithin(h, MaxAssign)

\* assign in the runs that follow one link through its four failures.
AssignToEvict(h) == AssignWithin(h, MaxEvictAssign)

\* LinkState::deacitve: the new failure count (AtomicU8 fetch_add wraps)
\* and the delay of the resume task, 0 for none.
Deactivated(l) ==
    [l EXCEPT !.failure_count = (@ + 1) % U8, !.is_healthy = FALSE]

ResumeDelay(failure_count) ==
    CASE failure_count = 1 -> 5
      [] failure_count = 2 -> 30
      [] failure_count = 3 -> 60
      [] OTHER -> 0

\* IndexSet::swap_remove(&key): the entry is looked up under the hash the
\* key has now.  An entry stored under another hash is found only when the
\* two hashes happen to meet in the table (`collide`).
Position(entries, id, l, collide) ==
    LET hit == {i \in 1..Len(entries) :
                   /\ entries[i].id = id
                   /\ (entries[i].hash = HashOf(l) \/ collide)}
    IN IF hit = {} THEN 0 ELSE CHOOSE i \in hit : TRUE

SwapRemove(entries, i) ==
    IF i = 0 THEN entries
    ELSE LET n == Len(entries)
         IN [j \in 1..(n - 1) |-> IF j = i THEN entries[n] ELSE entries[j]]

\* delay_task_sender.try_send(task): whether the channel takes the task.
TrySend(ch) == Len(ch) < ChannelCap

\* The branch of the solve closure taken when deacitve returns a task.
SolveSubmit(id, l) ==
    LET tid == Len(tasks) + 1
        task == [id |-> id, timeout |-> ResumeDelay(l.failure_count), tid |-> tid]
    IN /\ IF TrySend(chan)
          THEN /\ chan' = Append(chan, task)
               /\ tasks' = Append(tasks, [id |-> id, timeout |-> task.timeout,
                                          calls |-> 0, early |-> FALSE,
                                         upgraded |-> FALSE])
               /\ lastl' = [LinkCalled("solve", l.host, l.pair, id, "Ok")
                               EXCEPT !.tid = tid]
          ELSE /\ lastl' = LinkCalled("solve", l.host, l.pair, id, "TaskSendError")
               /\ UNCHANGED <<chan, tasks>>
       /\ UNCHANGED <<links, removing>>

\* The branch of the solve closure taken when deacitve returns None, up to
\* the end of its `need_remove` block.
SolveEvict(id, l) ==
    \E collide \in BOOLEAN :
       LET h == l.host
           left == IF h \in DOMAIN links
                   THEN SwapRemove(links[h].links,
                            Position(links[h].links, id, l, collide))
                   ELSE <<>>
       IN /\ links' = IF h \in DOMAIN links
                      THEN [links EXCEPT ![h].links = left]
                      ELSE links
          /\ removing' = IF h \in DOMAIN links /\ left = <<>>
                         THEN removing (+) SetToBag({h})
                         ELSE removing
          /\ lastl' = LinkCalled("solve", h, l.pair, id, "Ok")
          /\ UNCHANGED <<chan, tasks>>

\* A solve closure that deactivates the link's record before it finds the
\* weak reference dead.
SolveDangling_Deactivates(id) ==
    /\ lastl' = LinkCalled("solve", link[id].host, link[id].pair, id,
                           "LinkRefInvalid")
    /\ link' = [link EXCEPT ![id] = Deactivated(@)]
    /\ UNCHANGED <<links, removing, chan, lhist, tasks>>

\* The solve closure when selected_link.upgrade() is None: `?` returns
\* LinkRefInvalid before anything is touched.
SolveDangling(id) ==
    /\ lastl' = LinkCalled("solve", link[id].host, link[id].pair, id,
                           "LinkRefInvalid")
    /\ UNCHANGED <<link, links, removing, chan, lhist, tasks>>

\* The solve closure up to the end of its `need_remove` block.
Solve(id) ==
    /\ closures[id] > 0
    /\ closures' = [closures EXCEPT ![id] = @ - 1]
    /\ IF ~Alive(id)
       THEN SolveDangling(id)
       ELSE LET l == Deactivated(link[id])
            IN /\ link' = [link EXCEPT ![id] = l]
               /\ lhist' = [lhist EXCEPT ![id].solved = @ + 1,
                                         ![id].total = @ + 1]
               /\ IF l.failure_count = 0
                  THEN /\ lastl' = LinkCalled("solve", l.host, l.pair, id,
                                              "unreachable")
                       /\ UNCHANGED <<links, removing, chan, tasks>>
                  ELSE IF ResumeDelay(l.failure_count) # 0
                       THEN SolveSubmit(id, l)
                       ELSE SolveEvict(id, l)
    /\ UNCHANGED <<hfvars, ccvars, mrvars, cdvars, lockvars, obvars, delay_queue, now, nassign>>

\* A solve closure that ends without links.remove(&host_id).
SolveRemoveBond_Keep(h) ==
    /\ BagIn(h, removing)
    /\ removing' = removing (-) SetToBag({h})
    /\ UNCHANGED <<hfvars, ccvars, mrvars, cdvars, lockvars, obvars, links,
                   link, closures, chan, delay_queue, now, nassign, lhist,
                   lastl, tasks>>

\* The solve closure's last statement: links.remove(&host_id).
SolveRemoveBond(h) ==
    /\ BagIn(h, removing)
    /\ removing' = removing (-) SetToBag({h})
    /\ links' = RemoveKeys(links, {h})
    /\ UNCHANGED <<hfvars, ccvars, mrvars, cdvars, lockvars, obvars, link, closures, chan, delay_queue, now,
                   nassign, lhist, lastl, tasks>>

\* The scheduler worker: rx.recv() -> delay_queue.insert(callback, timeout).
\* `left` is the time the entry still has to wait on the timer.
SchedulerRecv ==
    /\ chan # <<>>
    /\ delay_queue' = delay_queue \cup
           {[id |-> Head(chan).id, tid |-> Head(chan).tid,
             left |-> Head(chan).timeout]}
    /\ chan' = Tail(chan)
    /\ UNCHANGED <<hfvars, ccvars, mrvars, cdvars, lockvars, obvars, links, link, closures, removing, now,
                   nassign, lhist, lastl, tasks>>

\* A DelayQueue::next that yields any entry, whatever its deadline.
Expired_Any(queue) == queue

\* DelayQueue::next: the entries whose deadline has passed.
Expired(queue) == {e \in queue : e.left = 0}

\* LinkState::reset that only marks the link healthy.
Reset_KeepCount(l) == [l EXCEPT !.is_healthy = TRUE]

\* LinkState::reset
Reset(l) == [l EXCEPT !.failure_count = 0, !.is_healthy = TRUE]

\* The scheduler worker: delay_queue.next() -> callback().  The callback
\* upgrades its weak reference and resets the link if it is still there.
SchedulerExpire ==
    /\ \E t \in Expired(delay_queue) :
          /\ delay_queue' = delay_queue \ {t}
          /\ tasks' = [tasks EXCEPT ![t.tid].calls = @ + 1,
                                    ![t.tid].early = (t.left > 0),
                                    ![t.tid].upgraded = Alive(t.id)]
          /\ IF Alive(t.id)
             THEN /\ link' = [link EXCEPT ![t.id] = Reset(@)]
                  /\ lhist' = [lhist EXCEPT ![t.id].solved = 0]
             ELSE UNCHANGED <<link, lhist>>
    /\ UNCHANGED <<hfvars, ccvars, mrvars, cdvars, lockvars, obvars, links, closures, removing, chan, now,
                   nassign, lastl>>

\* The wall clock (SystemTime::now) moves on.
Tick ==
    /\ now < MaxNow
    /\ now' = now + 1
    /\ UNCHANGED <<hfvars, ccvars, mrvars, cdvars, lockvars, obvars, links, link, closures, removing, chan,
                   delay_queue, nassign, lhist, lastl, tasks>>

\* The timer of the DelayQueue moves on, up to the next deadline in the
\* queue or by one of the shorter resume delays.
Elapse ==
    /\ \E e \in delay_queue : e.left > 0
    /\ LET next == CHOOSE d \in {e.left : e \in delay_queue} \ {0} :
                       \A e \in delay_queue : e.left > 0 => d <= e.left
       IN \E d \in {next} \cup {ResumeDelay(k) : k \in {1, 2}} :
             /\ d <= next
             /\ delay_queue' = {[e EXCEPT !.left = Max(0, @ - d)] :
                                    e \in delay_queue}
    /\ UNCHANGED <<hfvars, ccvars, mrvars, cdvars, lockvars, obvars, links, link, closures, removing, chan,
                   now, nassign, lhist, lastl, tasks>>

\* The table with its scheduler running.  With MaxAssign solve closures at
\* most, no link fails a fourth time before it recovers, so nothing is
\* evicted here; SpecEvict below follows the evictions.
NextLink ==
    \/ \E h \in Hosts, p \in Pairs : Update(h, p)
    \/ \E h \in Hosts : Assign(h)
    \/ \E id \in 1..Len(link) : Solve(id)
    \/ SchedulerRecv
    \/ SchedulerExpire
    \/ Tick
    \/ Elapse

SpecLink == InitHotFile /\ [][NextLink]_vars

\* The scheduler worker is a spawned task that is polled whenever its channel
\* or its timer is ready, and the timer runs on.
SpecLinkFair ==
    /\ SpecLink
    /\ WF_vars(SchedulerRecv)
    /\ WF_vars(SchedulerExpire)
    /\ WF_vars(Elapse)

\* The table and the scheduler with enough assignments for a link to be
\* solved four times; the wall clock stands still.
NextEvict ==
    \/ \E h \in Hosts, p \in Pairs : Update(h, p)
    \/ \E h \in Hosts : AssignToEvict(h)
    \/ \E id \in 1..Len(link) : Solve(id)
    \/ \E h \in Hosts : SolveRemoveBond(h)
    \/ SchedulerRecv
    \/ SchedulerExpire
    \/ Elapse

SpecEvict == InitHotFile /\ [][NextEvict]_vars

\* assign in the runs where a closure outlives its link: one more than the
\* four that evict it.
AssignToDangle(h) == AssignWithin(h, MaxDangleAssign)

\* The table with closures left over after an eviction; the scheduler
\* worker takes the tasks it is sent and its timer stands still.
NextDangling ==
    \/ \E h \in Hosts, p \in Pairs : Update(h, p)
    \/ \E h \in Hosts : AssignToDangle(h)
    \/ \E id \in 1..Len(link) : Solve(id)
    \/ \E h \in Hosts : SolveRemoveBond(h)
    \/ SchedulerRecv

SpecDangling == InitHotFile /\ [][NextDangling]_vars

\* What becomes of the message once a link is assigned: no sink for the
\* link's local address, a sink whose send fails, or a sink that takes it.
SinkOutcomes == {"NoSink", "SendFailed", "Sent"}

\* One turn of the Outbound worker's loop that solves the link whose sink
\* failed to send.
OutboundRecv_SolvesOnError(h) ==
    /\ outbound.events < MaxEvents
    /\ IF AssignResult(h) # "Ok"
       THEN /\ outbound' = [events |-> outbound.events + 1,
                            res |-> AssignResult(h), id |-> 0]
            /\ UNCHANGED link
       ELSE LET cands == Candidates(h)
                prefix == PrefixWeights(cands, Len(cands))
            IN \E r \in Draws(prefix), out \in SinkOutcomes :
                  LET idx == SelectedIndex(prefix, r)
                  IN /\ idx <= Len(cands)
                     /\ link' = [link EXCEPT ![cands[idx]] =
                                   IF out = "SendFailed"
                                   THEN Deactivated([@ EXCEPT !.last_used = now])
                                   ELSE [@ EXCEPT !.last_used = now]]
                     /\ outbound' = [events |-> outbound.events + 1,
                                     res |-> out, id |-> cands[idx]]
    /\ UNCHANGED <<hfvars, ccvars, mrvars, cdvars, lockvars, deact, enc_last,
                   links, closures, removing, chan, delay_queue, now, nassign,
                   lhist, lastl, tasks>>

\* One turn of the Outbound worker's loop: rx.recv() yields an event for
\* host h, links.assign(&host) selects a link and stamps it, the message goes
\* to the sink of the link's local address.  The AssignedLink is dropped at
\* the end of the turn, its solve closure with it, never called.
OutboundRecv(h) ==
    /\ outbound.events < MaxEvents
    /\ IF AssignResult(h) # "Ok"
       THEN /\ outbound' = [events |-> outbound.events + 1,
                            res |-> AssignResult(h), id |-> 0]
            /\ UNCHANGED link
       ELSE LET cands == Candidates(h)
                prefix == PrefixWeights(cands, Len(cands))
            IN \E r \in Draws(prefix), out \in SinkOutcomes :
                  LET idx == SelectedIndex(prefix, r)
                  IN /\ idx <= Len(cands)
                     /\ link' = [link EXCEPT ![cands[idx]].last_used = now]
                     /\ outbound' = [events |-> outbound.events + 1,
                                     res |-> out, id |-> cands[idx]]
    /\ UNCHANGED <<hfvars, ccvars, mrvars, cdvars, lockvars, deact, enc_last,
                   links, closures, removing, chan, delay_queue, now, nassign,
                   lhist, lastl, tasks>>

\* The Outbound worker next to another user of the table that assigns links
\* and solves them, and the scheduler worker.  With MaxAssign closures no
\* link fails a fourth time, so nothing is evicted here.
NextOutbound ==
    \/ \E h \in Hosts, p \in Pairs : Update(h, p)
    \/ \E h \in Hosts : Assign(h)
    \/ \E id \in 1..Len(link) : Solve(id)
    \/ SchedulerRecv
    \/ Elapse
    \/ \E h \in Hosts : OutboundRecv(h)

SpecOutbound == InitHotFile /\ [][NextOutbound]_vars

\* link.clone().deacitve() on one LinkState, called as often as one likes.
\* failure_count is an AtomicU8: fetch_add wraps, and the `+ 1` on the value
\* it returns overflows with it.  A debug build panics on that addition,
\* before is_healthy is stored; a release build wraps to 0, stores is_healthy
\* and panics on `0 => unreachable!()`.
Deacitve ==
    /\ deact.op # "panic"
    /\ LET l == Deactivated(deact.l)
       IN IF l.failure_count = 0
          THEN \E stored \in {deact.l.is_healthy, FALSE} :
                  deact' = [op |-> "panic",
                            l |-> [l EXCEPT !.is_healthy = stored],
                            before |-> deact.l.failure_count,
                            task |-> "None", timeout |-> 0]
          ELSE deact' = [op |-> "deacitve", l |-> l,
                         before |-> deact.l.failure_count,
                         task |-> IF ResumeDelay(l.failure_count) # 0
                                  THEN "Some" ELSE "None",
                         timeout |-> ResumeDelay(l.failure_count)]
    /\ UNCHANGED <<hfvars, ccvars, lkvars, mrvars, cdvars, lockvars, enc_last,
                   outbound>>

\* The callback of a resume task runs: link.reset().
ResetOne ==
    /\ deact.op = "deacitve"
    /\ deact.task = "Some"
    /\ deact' = [op |-> "reset", l |-> Reset(deact.l),
                 before |-> deact.l.failure_count, task |-> "None",
                 timeout |-> 0]
    /\ UNCHANGED <<hfvars, ccvars, lkvars, mrvars, cdvars, lockvars, enc_last,
                   outbound>>

NextDeacitve ==
    \/ Deacitve
    \/ ResetOne

SpecDeacitve == InitHotFile /\ [][NextDeacitve]_vars

\* ------------------------------------------------- FileMultiRange calls
\* FileRange::try_new accepts start < end.
ValidRanges == {r \in (0..MaxPos) \X (0..MaxPos) : r[1] < r[2]}

\* mr_a.add_checked(start, end)
AddA(range) ==
    /\ split_it = NoSplit
    /\ mr_a' = add(mr_a, range)
    /\ mr_added' = [mr_added EXCEPT !.a = @ \cup Cover(<<range>>)]
    /\ mr_last' = [op |-> "add", out |-> <<>>, touched |-> Touched(mr_a, range)]
    /\ UNCHANGED <<hfvars, ccvars, lkvars, cdvars, lockvars, obvars, mr_b, split_it, conv_last>>

\* mr_b.add_checked(start, end)
AddB(range) ==
    /\ mr_b' = add(mr_b, range)
    /\ mr_added' = [mr_added EXCEPT !.b = @ \cup Cover(<<range>>)]
    /\ mr_last' = [op |-> "add", out |-> <<>>, touched |-> Touched(mr_b, range)]
    /\ UNCHANGED <<hfvars, ccvars, lkvars, cdvars, lockvars, obvars, mr_a, split_it, conv_last>>

\* mr_a.subtract(&mr_b)
Subtract ==
    /\ mr_last' = [op |-> "subtract", out |-> subtract(mr_a, mr_b), touched |-> 0]
    /\ UNCHANGED <<hfvars, ccvars, lkvars, cdvars, lockvars, obvars, mr_a, mr_b, mr_added,
                   split_it, conv_last>>

\* mr_a.intersect(&mr_b)
Intersect ==
    /\ mr_last' = [op |-> "intersect", out |-> multi_intersect(mr_a, mr_b),
                   touched |-> 0]
    /\ UNCHANGED <<hfvars, ccvars, lkvars, cdvars, lockvars, obvars, mr_a, mr_b, mr_added,
                   split_it, conv_last>>

NextMultiRange ==
    \/ \E range \in ValidRanges : AddA(range)
    \/ \E range \in ValidRanges : AddB(range)
    \/ Subtract
    \/ Intersect

SpecMultiRange == InitHotFile /\ [][NextMultiRange]_vars

\* mr_a.split(n): the iterator borrows mr_a, which cannot change while the
\* iterator lives.
SplitStart(n) ==
    /\ split_it = NoSplit
    /\ split_it' = [NoSplit EXCEPT !.n = n, !.item = "start"]
    /\ UNCHANGED <<hfvars, ccvars, lkvars, cdvars, lockvars, obvars, mr_a, mr_b, mr_added,
                   mr_last, conv_last>>

\* One call of next() on the iterator.  After IndexOverflow the closure has
\* not moved, so the next call yields the same error.
SplitNext ==
    /\ split_it.item \notin {"idle", "None"}
    /\ split_it.errs < MaxSplitErrs
    /\ LET nx == FlatMapNext(mr_a, split_it.i, split_it.current, split_it.n)
       IN split_it' = [split_it EXCEPT
                          !.i = nx.i,
                          !.current = nx.current,
                          !.item = nx.item,
                          !.out = IF nx.item = "Ok"
                                  THEN Append(@, nx.piece) ELSE @,
                          !.errs = IF nx.item = "IndexOverflow"
                                   THEN @ + 1 ELSE @]
    /\ UNCHANGED <<hfvars, ccvars, lkvars, cdvars, lockvars, obvars, mr_a, mr_b, mr_added,
                   mr_last, conv_last>>

NextSplit ==
    \/ \E range \in ValidRanges : AddA(range)
    \/ \E n \in 0..MaxSplitLen : SplitStart(n)
    \/ SplitNext

SpecSplit == InitHotFile /\ [][NextSplit]_vars

\* The bounds a caller can pass: every usize value, included or excluded,
\* or no bound.
Bounds ==
    {Unbounded} \cup {Included(v) : v \in 0..UsizeMax}
                \cup {Excluded(v) : v \in 0..UsizeMax}

\* FileRange::try_new(start, end)
TryNew(start, end) ==
    /\ conv_last' = [op |-> "try_new", a |-> Included(start), b |-> Excluded(end),
                     out |-> try_new(start, end)]
    /\ UNCHANGED <<hfvars, ccvars, lkvars, cdvars, lockvars, obvars, mr_a, mr_b, mr_added,
                   mr_last, split_it>>

\* FileRange::try_from(range) for Range, RangeInclusive and a pair of
\* Bounds: all of them go through to_bound_pair and extract_range_bounds.
TryFrom(start, end) ==
    /\ conv_last' = [op |-> "try_from", a |-> start, b |-> end,
                     out |-> extract_range_bounds(start, end)]
    /\ UNCHANGED <<hfvars, ccvars, lkvars, cdvars, lockvars, obvars, mr_a, mr_b, mr_added,
                   mr_last, split_it>>

NextConv ==
    \/ \E start, end \in 0..UsizeMax : TryNew(start, end)
    \/ \E start, end \in Bounds : TryFrom(start, end)

SpecConv == InitHotFile /\ [][NextConv]_vars

\* ---------------------------------------------------------- codec calls
\* Any byte arrives in the decoder's buffer.
Arrive(b) ==
    /\ dec_last.res # "panic"
    /\ Len(dec_src) < MaxSrcLen
    /\ dec_src' = Append(dec_src, b)
    /\ dec_last' = NoDecode
    /\ UNCHANGED <<hfvars, ccvars, lkvars, mrvars, lockvars, obvars, wire, codec_hist>>

\* codec.decode(&mut src)
DecodeCall ==
    /\ dec_last.res # "panic"
    /\ LET d == decode(dec_src)
       IN /\ dec_src' = d.src
          /\ dec_last' = [res |-> d.res, item |-> d.item, before |-> dec_src]

Decode ==
    /\ DecodeCall
    /\ UNCHANGED <<hfvars, ccvars, lkvars, mrvars, lockvars, obvars, wire, codec_hist>>

\* codec.encode(item, &mut dst) on the sending side; dst goes on the wire.
Encode(item) ==
    /\ encode(item).ok
    /\ Len(dec_src) + Len(wire) + Len(encode(item).bytes) <= MaxWire
    /\ wire' = wire \o encode(item).bytes
    /\ codec_hist' = [codec_hist EXCEPT !.pending = Append(@, item)]
    /\ UNCHANGED <<hfvars, ccvars, lkvars, mrvars, lockvars, obvars, dec_src, dec_last>>

\* The next byte on the wire arrives in the decoder's buffer.
Deliver ==
    /\ wire # <<>>
    /\ dec_src' = Append(dec_src, Head(wire))
    /\ wire' = Tail(wire)
    /\ dec_last' = NoDecode
    /\ UNCHANGED <<hfvars, ccvars, lkvars, mrvars, lockvars, obvars, codec_hist>>

\* codec.decode(&mut src) on the receiving side of that wire: a decoded
\* message is compared with the oldest one not yet received.
DecodeSent ==
    /\ DecodeCall
    /\ codec_hist' =
          IF dec_last'.res # "Some" THEN codec_hist
          ELSE IF codec_hist.pending = <<>>
          THEN [codec_hist EXCEPT !.mismatch = TRUE]
          ELSE [pending |-> Tail(codec_hist.pending),
                mismatch |-> codec_hist.mismatch
                                \/ dec_last'.item # Head(codec_hist.pending)]
    /\ UNCHANGED <<hfvars, ccvars, lkvars, mrvars, lockvars, obvars, wire>>

NextCodec ==
    \/ \E b \in Bytes : Arrive(b)
    \/ Decode

SpecCodec == InitHotFile /\ [][NextCodec]_vars

\* A peer that speaks another protocol version encodes item: the same
\* datagram with its version byte in the header.
EncodeOther(item, version) ==
    /\ version # PROTOCOL_VERSION
    /\ encode(item).ok
    /\ Len(dec_src) + Len(wire) + Len(encode(item).bytes) <= MaxWire
    /\ wire' = wire \o [encode(item).bytes EXCEPT ![HDR_LEN] = version]
    /\ UNCHANGED <<hfvars, ccvars, lkvars, mrvars, lockvars, obvars, dec_src,
                   dec_last, codec_hist>>

\* What the other peer sends: its body is skipped unread, so one message of
\* each length stands for all of them.
OtherMsgs == {[tag |-> 0, payload |-> Fill(n, 0)] : n \in 0..MaxPayload}

NextVersions ==
    \/ \E item \in Msgs : Encode(item)
    \/ \E item \in OtherMsgs : EncodeOther(item, PROTOCOL_VERSION + 1)
    \/ Deliver
    \/ DecodeSent

SpecVersions == InitHotFile /\ [][NextVersions]_vars

NextRoundTrip ==
    \/ \E item \in Msgs : Encode(item)
    \/ Deliver
    \/ DecodeSent

SpecRoundTrip == InitHotFile /\ [][NextRoundTrip]_vars

\* Messages of every size up to the first that no longer fits a datagram.
LongMsgs ==
    {[tag |-> t, payload |-> Fill(n, b)] :
        t \in 0..(NumVariants - 1), n \in 0..MaxBody, b \in {0, ByteBase - 1}}

\* codec.encode(item, &mut dst) with whatever dst already holds.
EncodeInto(item) ==
    /\ Len(enc_last.dst) <= MaxWire
    /\ LET e == encode(item)
       IN enc_last' = [res |-> IF e.ok THEN "Ok" ELSE "Err",
                       item |-> item,
                       before |-> enc_last.dst,
                       dst |-> enc_last.dst \o e.bytes]
    /\ UNCHANGED <<hfvars, ccvars, lkvars, mrvars, cdvars, lockvars, deact,
                   outbound>>

\* The sink takes what dst holds.
DstTaken ==
    /\ enc_last.dst # <<>>
    /\ enc_last' = NoEncode
    /\ UNCHANGED <<hfvars, ccvars, lkvars, mrvars, cdvars, lockvars, deact,
                   outbound>>

NextEncode ==
    \/ \E item \in LongMsgs : EncodeInto(item)
    \/ DstTaken

SpecEncode == InitHotFile /\ [][NextEncode]_vars

\* ------------------------------------------- HotFile's two mutexes
\* The calls of HotFile cut where a guard is taken or dropped.  What the
\* calls do to the data is left to the steps above; of the dirty map only
\* whether it has entries is kept, because sync() returns early on an empty
\* one.  lock().await on a held Mutex waits: the step is not enabled.
LockFrame == UNCHANGED <<hfvars, ccvars, lkvars, mrvars, cdvars, obvars>>

\* write: self.dirty.lock().await of the statement that collects overlapped.
WriteLockCollect(t) ==
    /\ running[t].pc = "idle"
    /\ dirty_lock = Free
    /\ dirty_lock' = t
    /\ running' = [running EXCEPT ![t] =
                      [IdleTask EXCEPT !.pc = "collect",
                                       !.during = disk_lock \in Syncers]]
    /\ UNCHANGED <<disk_lock, has_dirty, lock_hist>>
    /\ LockFrame

\* write: the guard is a temporary of that statement and is dropped at its
\* end; the merged buffer and fetch_max need no lock.
WriteCollected(t) ==
    /\ running[t].pc = "collect"
    /\ dirty_lock' = Free
    /\ running' = [running EXCEPT ![t].pc = "lock_replace"]
    /\ UNCHANGED <<disk_lock, has_dirty, lock_hist>>
    /\ LockFrame

\* write: let mut dirty_guard = self.dirty.lock().await
WriteLockReplace(t) ==
    /\ running[t].pc = "lock_replace"
    /\ dirty_lock = Free
    /\ dirty_lock' = t
    /\ running' = [running EXCEPT ![t].pc = "replace"]
    /\ UNCHANGED <<disk_lock, has_dirty, lock_hist>>
    /\ LockFrame

\* write: remove, insert, Ok(()): dirty_guard is dropped on return.
WriteReturn(t) ==
    /\ running[t].pc = "replace"
    /\ dirty_lock' = Free
    /\ has_dirty' = TRUE
    /\ lock_hist' = [lock_hist EXCEPT !.write_in_flush = running[t].during]
    /\ running' = [running EXCEPT ![t] = IdleTask]
    /\ UNCHANGED disk_lock
    /\ LockFrame

\* sync: let dirty_guard = self.dirty.lock().await
SyncLockSnapshot(t) ==
    /\ running[t].pc = "idle"
    /\ dirty_lock = Free
    /\ dirty_lock' = t
    /\ running' = [running EXCEPT ![t].pc = "snapshot"]
    /\ UNCHANGED <<disk_lock, has_dirty, lock_hist>>
    /\ LockFrame

\* sync: dirty_guard.is_empty(), return Ok(()).
SyncEmpty(t) ==
    /\ running[t].pc = "snapshot"
    /\ ~has_dirty
    /\ dirty_lock' = Free
    /\ running' = [running EXCEPT ![t] = IdleTask]
    /\ UNCHANGED <<disk_lock, has_dirty, lock_hist>>
    /\ LockFrame

\* sync that goes on to the disk with dirty_guard still alive.
SyncDropDirty_Keep(t) ==
    /\ running[t].pc = "snapshot"
    /\ has_dirty
    /\ running' = [running EXCEPT ![t].pc = "lock_disk"]
    /\ UNCHANGED <<dirty_lock, disk_lock, has_dirty, lock_hist>>
    /\ LockFrame

\* sync: the snapshot is taken, drop(dirty_guard).
SyncDropDirty(t) ==
    /\ running[t].pc = "snapshot"
    /\ has_dirty
    /\ dirty_lock' = Free
    /\ running' = [running EXCEPT ![t].pc = "lock_disk"]
    /\ UNCHANGED <<disk_lock, has_dirty, lock_hist>>
    /\ LockFrame

\* sync: let mut disk_guard = self.disk.lock().await
SyncLockDisk(t) ==
    /\ running[t].pc = "lock_disk"
    /\ disk_lock = Free
    /\ disk_lock' = t
    /\ running' = [running EXCEPT ![t].pc = "flush"]
    /\ UNCHANGED <<dirty_lock, has_dirty, lock_hist>>
    /\ LockFrame

\* Dropping a disk guard ends the flush that the running writes overlap.
EndFlush(r) ==
    [t \in DOMAIN r |-> [r[t] EXCEPT !.during = FALSE]]

\* sync: set_len, the writes and sync_all are done, drop(disk_guard); or
\* one of them failed and `?` returns, which drops disk_guard as well.
SyncDropDisk(t, ok) ==
    /\ running[t].pc = "flush"
    /\ disk_lock' = Free
    /\ running' = [EndFlush(running) EXCEPT ![t] =
                      IF ok THEN [IdleTask EXCEPT !.pc = "lock_cleanup"]
                      ELSE IdleTask]
    /\ lock_hist' = [lock_hist EXCEPT !.write_in_flush = FALSE]
    /\ UNCHANGED <<dirty_lock, has_dirty>>
    /\ LockFrame

\* sync: let mut dirty_guard = self.dirty.lock().await
SyncLockCleanup(t) ==
    /\ running[t].pc = "lock_cleanup"
    /\ dirty_lock = Free
    /\ dirty_lock' = t
    /\ running' = [running EXCEPT ![t].pc = "cleanup"]
    /\ UNCHANGED <<disk_lock, has_dirty, lock_hist>>
    /\ LockFrame

\* sync: the snapshot's keys are removed, Ok(()): dirty_guard is dropped.
\* Entries written since the snapshot stay, so the map may still have some.
SyncReturn(t, rest) ==
    /\ running[t].pc = "cleanup"
    /\ dirty_lock' = Free
    /\ has_dirty' = rest
    /\ running' = [running EXCEPT ![t] = IdleTask]
    /\ UNCHANGED <<disk_lock, lock_hist>>
    /\ LockFrame

\* read(mask) with a mask of n ranges: the loop is entered.
ReadStart(t, n) ==
    /\ running[t].pc = "idle"
    /\ running' = [running EXCEPT ![t] = [IdleTask EXCEPT !.pc = "lock_dirty",
                                                         !.subs = n]]
    /\ UNCHANGED <<dirty_lock, disk_lock, has_dirty, lock_hist>>
    /\ LockFrame

\* read: self.dirty.lock().await of the statement that collects dirty_segs.
ReadLockDirty(t) ==
    /\ running[t].pc = "lock_dirty"
    /\ dirty_lock = Free
    /\ dirty_lock' = t
    /\ running' = [running EXCEPT ![t].pc = "segs"]
    /\ UNCHANGED <<disk_lock, has_dirty, lock_hist>>
    /\ LockFrame

\* The next range of the mask, or the return of read.
NextSubRange(c) ==
    IF c.subs > 1 THEN [IdleTask EXCEPT !.pc = "lock_dirty", !.subs = c.subs - 1]
    ELSE IdleTask

\* read: the guard is a temporary of that statement and is dropped at its
\* end; disk_mask has k ranges, each of them a read_disk_by_range call.
ReadSegs(t, k) ==
    /\ running[t].pc = "segs"
    /\ dirty_lock' = Free
    /\ running' = [running EXCEPT ![t] =
                      IF k = 0 THEN NextSubRange(running[t])
                      ELSE [running[t] EXCEPT !.pc = "lock_disk", !.parts = k]]
    /\ UNCHANGED <<disk_lock, has_dirty, lock_hist>>
    /\ LockFrame

\* read_disk_by_range: rgn.end > logical_len, Err(OutOfFile) before any lock;
\* try_join_all(..).await? returns it from read.
ReadOutOfFile(t) ==
    /\ running[t].pc = "lock_disk"
    /\ running' = [running EXCEPT ![t] = IdleTask]
    /\ UNCHANGED <<dirty_lock, disk_lock, has_dirty, lock_hist>>
    /\ LockFrame

\* read_disk_by_range: let mut disk_guard = self.disk.lock().await
ReadLockDisk(t) ==
    /\ running[t].pc = "lock_disk"
    /\ disk_lock = Free
    /\ disk_lock' = t
    /\ running' = [running EXCEPT ![t].pc = "disk"]
    /\ UNCHANGED <<dirty_lock, has_dirty, lock_hist>>
    /\ LockFrame

\* read_disk_by_range returns and disk_guard is dropped: with the bytes
\* (the next part, the next range of the mask or the return of read), or
\* with an error that read returns.
ReadDiskDone(t, ok) ==
    /\ running[t].pc = "disk"
    /\ disk_lock' = Free
    /\ running' = [running EXCEPT ![t] =
                      IF ~ok THEN IdleTask
                      ELSE IF running[t].parts > 1
                      THEN [running[t] EXCEPT !.pc = "lock_disk",
                                              !.parts = running[t].parts - 1]
                      ELSE NextSubRange(running[t])]
    /\ UNCHANGED <<dirty_lock, has_dirty, lock_hist>>
    /\ LockFrame

WriteSteps(t) ==
    \/ WriteLockCollect(t)
    \/ WriteCollected(t)
    \/ WriteLockReplace(t)
    \/ WriteReturn(t)

SyncSteps(t) ==
    \/ SyncLockSnapshot(t)
    \/ SyncEmpty(t)
    \/ SyncDropDirty(t)
    \/ SyncLockDisk(t)
    \/ \E ok \in BOOLEAN : SyncDropDisk(t, ok)
    \/ SyncLockCleanup(t)
    \/ \E rest \in BOOLEAN : SyncReturn(t, rest)

ReadSteps(t) ==
    \/ \E n \in 1..MaxSubRanges : ReadStart(t, n)
    \/ ReadLockDirty(t)
    \/ \E k \in 0..MaxDiskParts : ReadSegs(t, k)
    \/ ReadOutOfFile(t)
    \/ ReadLockDisk(t)
    \/ \E ok \in BOOLEAN : ReadDiskDone(t, ok)

NextLock ==
    \/ \E t \in Writers : WriteSteps(t)
    \/ \E t \in Syncers : SyncSteps(t)
    \/ \E t \in Readers : ReadSteps(t)

SpecLock == InitHotFile /\ [][NextLock]_vars

\* One FileMultiRange built by add calls alone.
NextAdd == \E range \in ValidRanges : AddA(range)

SpecAdd == InitHotFile /\ [][NextAdd]_vars

\* --------------------------------------------------- claims: concurrency
DisjointKeys(a, b) == a[2] <= b[1] \/ b[2] <= a[1]
ApartKeys(a, b) == a[2] < b[1] \/ b[2] < a[1]

\* C1: the cleanup of sync removes from the dirty map only the entries it
\* snapshotted and flushed; an entry a write inserted or replaced after the
\* snapshot, whatever its key, is still in the dirty map when sync returns.
\* (Stated for runs whose writes do not overlap one another in time.)
C1_CleanupRemovesOnlyFlushedEntries ==
    [][\A s \in Syncers :
          (syncers[s].pc = "cleanup" /\ syncers'[s].pc = "idle"
             /\ ~hist.overlapping_writes)
             => \A k \in DOMAIN dirty :
                   (~\E i \in 1..Len(syncers[s].snapshot) :
                        syncers[s].snapshot[i] = <<k, dirty[k]>>)
                      => (k \in DOMAIN dirty' /\ dirty'[k] = dirty[k])]_vars

\* C2: once two concurrent writes have both returned, the dirty keys are
\* pairwise non-overlapping and every address covered by exactly one of the
\* two writes holds that write's byte.
C2_ConcurrentWritesAreAtomic ==
    (\A w \in Writers : writers[w].pc = "idle")
       => /\ \A a, b \in DOMAIN dirty : a # b => DisjointKeys(a, b)
          /\ (~hist.synced /\ \A w \in Writers : writers[w].rgn # NONE)
                => \A w \in Writers, x \in 0..MaxAddr :
                      (/\ writers[w].rgn[1] <= x /\ x < writers[w].rgn[2]
                       /\ \A v \in Writers \ {w} :
                             ~(writers[v].rgn[1] <= x /\ x < writers[v].rgn[2]))
                         => /\ \E k \in DOMAIN dirty : k[1] <= x /\ x < k[2]
                            /\ \A k \in DOMAIN dirty :
                                  (k[1] <= x /\ x < k[2])
                                     => dirty[k][x - k[1] + 1] = writers[w].buf[1]

\* C3: overlapping syncs are serialisable; in particular, with the writes
\* made one at a time, once every sync has returned the disk holds at no
\* address an older byte than one that was flushed and cleared from the
\* dirty map.
C3_SyncsLeaveNoStaleDisk ==
    (/\ \A s \in Syncers : syncers[s].pc = "idle"
     /\ \A w \in Writers : writers[w].pc = "idle"
     /\ ~hist.overlapping_writes)
       => \A a \in 0..MaxAddr :
             (hist.flushed[a] # 0 /\ a < Len(disk))
                => disk[a + 1] >= hist.flushed[a]

\* ------------------------------------------------ claims: calls one at a time
RECURSIVE Flatten(_)
Flatten(chunks) ==
    IF chunks = <<>> THEN <<>> ELSE Head(chunks) \o Flatten(Tail(chunks))

\* What a reader must see at address a: the last write over it, else the
\* byte the file had at open time, else zero.
TrueByte(a) ==
    IF latest[a] # 0 THEN latest[a]
    ELSE IF a < Len(disk0) THEN disk0[a + 1] ELSE 0

RECURSIVE TrueBytes(_)
TrueBytes(mask) ==
    IF mask = <<>> THEN <<>>
    ELSE [i \in 1..interval(Head(mask)) |-> TrueByte(Head(mask)[1] + i - 1)]
             \o TrueBytes(Tail(mask))

MaskInside(mask, len) == \A i \in 1..Len(mask) : mask[i][2] <= len

\* C4: after writes made one at a time, read(mask) with the mask inside
\* [0, logical_length) succeeds and its slices, concatenated in order, are
\* the mask's bytes in ascending address order, each the byte of the latest
\* write over its address or else the byte on disk.
C4_ReadReturnsLatestWriteOrDisk ==
    (last.op = "read" /\ MaskInside(last.mask, sync_len_state))
        => /\ last.res = "Ok"
           /\ Flatten(last.out) = TrueBytes(last.mask)

\* C9: read(mask) fails with OutOfFile and returns nothing whenever the mask
\* reaches an address at or beyond logical_length, and never fails with
\* OutOfFile for a mask inside [0, logical_length).  (Stated for the reads
\* whose result does not depend on the order in which try_join_all polls.)
C9_OutOfFileIffBeyondLogicalLength ==
    (last.op = "read" /\ ~last.raced)
        => IF MaskInside(last.mask, sync_len_state)
           THEN last.res # "OutOfFile"
           ELSE last.res = "OutOfFile" /\ last.out = <<>>

C6_SyncLeavesCleanAndIsIdempotent ==
    /\ []((last.op = "sync" /\ last.res = "Ok")
            => DOMAIN dirty = {} /\ Len(disk) >= sync_len_state)
    /\ [][(last.op = "sync" /\ last.res = "Ok"
             /\ last'.op = "sync" /\ last'.res = "Ok")
            => disk' = disk /\ dirty' = dirty]_vars

C6_Witness ==
    /\ last.op = "sync" /\ last.res = "Ok" /\ last.snap = <<>>
    /\ disk # disk0
    /\ DOMAIN dirty = {}

\* C7: a successful sync leaves on disk the previous contents, zero-extended
\* to logical_length, with every dirty buffer laid over them at its range
\* start.
C7_SyncOverlaysDirtyOnDisk ==
    [][(last'.op = "sync" /\ last'.res = "Ok")
         => disk' = [i \in 1..Max(Len(disk), sync_len_state) |->
                       IF \E k \in DOMAIN dirty : k[1] < i /\ i <= k[2]
                       THEN LET k == CHOOSE k \in DOMAIN dirty :
                                        k[1] < i /\ i <= k[2]
                            IN dirty[k][i - k[1]]
                       ELSE IF i <= Len(disk) THEN disk[i] ELSE 0]]_vars

\* write at 0, sync, write right behind it, sync: both on disk back to back.
C7_Witness ==
    /\ last.op = "sync" /\ last.res = "Ok" /\ Len(last.snap) = 1
    /\ disk0 = <<>>
    /\ Len(disk) = 2 /\ disk[1] = 1 /\ disk[2] = 2

\* C8: a sync that meets an I/O error returns it and removes nothing from
\* the dirty map, so the next sync snapshots the same entries again.
C8_IoErrorKeepsDirtyEntries ==
    [][(last'.op = "sync" /\ last'.res = "IoError")
         => /\ dirty' = dirty
            /\ last'.snap # <<>>
            /\ Snapshot(dirty') = last'.snap]_vars

C8_Witness ==
    /\ last.op = "sync" /\ last.res = "IoError"
    /\ Len(last.snap) = 2
    /\ disk # disk0

\* ----------------------------------------------------- claims: link table
Members(h) == {links[h].links[i].id : i \in 1..Len(links[h].links)}

\* C11: assign(host) returns BondNotFound iff the table holds no bond for
\* host; when a member link of the bond is healthy it returns Ok with the
\* (local, remote) of a healthy member of that bond; it returns
\* LinksNotFound only when every member link is unhealthy.
C11_AssignAnswers ==
    [][(lastl'.op = "assign" /\ nassign' = nassign + 1)
         => LET h == lastl'.host
                res == lastl'.res
            IN /\ (res = "BondNotFound") <=> (h \notin DOMAIN links)
               /\ (h \in DOMAIN links
                     /\ \E id \in Members(h) : link[id].is_healthy)
                    => /\ res = "Ok"
                       /\ lastl'.id \in Members(h)
                       /\ link[lastl'.id].is_healthy
                       /\ lastl'.pair = link[lastl'.id].pair
               /\ (res = "LinksNotFound")
                    => /\ h \in DOMAIN links
                       /\ \A id \in Members(h) : ~link[id].is_healthy
               /\ res \in {"Ok", "BondNotFound", "LinksNotFound"}]_vars

\* assign picked the healthy link of a bond whose other link is unhealthy.
C11_Witness ==
    /\ lastl.op = "assign" /\ lastl.res = "Ok"
    /\ link[lastl.id].is_healthy
    /\ \E id \in Members(lastl.host) : ~link[id].is_healthy

\* C12: for every draw r in [0, total) assign selects the healthy candidate
\* at the smallest index whose prefix weight sum is strictly greater than r
\* (so that candidate i is selected for exactly weight(i) values of r).
C12_SelectsSmallestPrefixAboveDraw ==
    (lastl.op = "assign" /\ lastl.res = "Ok")
        => LET above == {i \in 1..Len(lastl.prefix) : lastl.prefix[i] > lastl.r}
               idx == CHOOSE i \in above : \A j \in above : i <= j
           IN /\ above # {}
              /\ lastl.id = lastl.cands[idx]

\* C13: when the channel into the resume scheduler is full as solve submits
\* the recovery task, the link is evicted from its bond at once, and a bond
\* emptied by that is removed from the table.
C13_FullChannelEvicts ==
    (lastl.op = "solve" /\ lastl.res = "TaskSendError")
        => /\ ~Alive(lastl.id)
           /\ (removing = EmptyBag /\ lastl.host \in DOMAIN links)
                 => links[lastl.host].links # <<>>

\* The resume tasks whose callback runs in this step.
Fired == {tid \in 1..Len(tasks) :
             Len(tasks') = Len(tasks) /\ tasks'[tid].calls = tasks[tid].calls + 1}

C17_UpdateKeepsPairsUnique ==
    \A h \in DOMAIN links :
       LET entries == links[h].links
       IN /\ \A i, j \in 1..Len(entries) :
                link[entries[i].id].pair = link[entries[j].id].pair => i = j
          /\ \A p \in Pairs :
                LET id == Len(link) + 1
                    l == NewLinkState(h, p, 0)
                    u == BondUpdate(entries, id, l)
                    has == \E i \in 1..Len(entries) :
                              link[entries[i].id].pair = p
                IN /\ u.ret <=> ~has
                   /\ u.ret => u.links = Append(entries, NewEntry(id, l))
                   /\ ~u.ret => u.links = entries
                   /\ Len(u.links) >= Len(entries)
                   /\ \A i \in 1..Len(entries) : u.links[i] = entries[i]

\* A bond holds two links, one of them unhealthy and one healthy and used,
\* so that an update for either pair meets a member in a changed state.
C17_Witness ==
    \E h \in DOMAIN links :
       /\ Len(links[h].links) = 2
       /\ \E i, j \in 1..2 :
             /\ ~link[links[h].links[i].id].is_healthy
             /\ link[links[h].links[j].id].is_healthy
             /\ link[links[h].links[j].id].last_used > 0

\* C18: starting from empty, after any sequence of add calls with valid
\* ranges the inner list is the canonical form of the union of the added
\* ranges: every range has start < end, the ranges ascend with
\* prev.end < next.start (touching ranges are merged), and the covered
\* offsets are exactly those of the added ranges.
C18_AddKeepsCanonicalUnion ==
    /\ Canonical(mr_a)
    /\ Cover(mr_a) = mr_added.a
    /\ Canonical(mr_b)
    /\ Cover(mr_b) = mr_added.b

\* An add has joined two stored ranges into one, and one of them only
\* touched the added range.
C18_Witness ==
    /\ mr_last.op = "add"
    /\ mr_last.touched = 2
    /\ \E i \in 1..Len(mr_a) : mr_a[i] = <<1, 5>>
    /\ mr_added.a = 1..4

\* C19: for canonical A and B, A.subtract(B).intersect(B) is empty,
\* A.subtract(B) together with A.intersect(B) covers exactly A,
\* A.subtract(empty) = A and empty.subtract(A) = empty.
C19_SetAlgebraLaws ==
    mr_last.op = "subtract"
       => /\ multi_intersect(mr_last.out, mr_b) = <<>>
          /\ Cover(mr_last.out) \cup Cover(multi_intersect(mr_a, mr_b))
                = Cover(mr_a)
          /\ Cover(mr_last.out) \cap Cover(multi_intersect(mr_a, mr_b)) = {}
          /\ mr_b = <<>> => mr_last.out = mr_a
          /\ mr_a = <<>> => mr_last.out = <<>>
          /\ subtract(mr_a, <<>>) = mr_a
          /\ subtract(<<>>, mr_a) = <<>>

\* A subtraction whose two operands overlap partly: something is removed,
\* something is left, and a part of B lies outside A.
C19_Witness ==
    /\ mr_last.op = "subtract"
    /\ mr_last.out # <<>>
    /\ multi_intersect(mr_a, mr_b) # <<>>
    /\ Len(multi_intersect(mr_a, mr_b)) = 2
    /\ Cover(mr_b) \ Cover(mr_a) # {}

\* C20: subtract returns exactly the set difference self minus other in
\* canonical form, also for subtrahend ranges that span several ranges of
\* self, end on a boundary of self, or lie partly or wholly outside self.
C20_SubtractIsDifference ==
    mr_last.op = "subtract"
       => /\ Canonical(mr_last.out)
          /\ Cover(mr_last.out) = Cover(mr_a) \ Cover(mr_b)

\* One range of B spans two ranges of A, begins inside the first and ends
\* on the end of the second, and another range of B lies outside A.
C20_Witness ==
    /\ mr_last.op = "subtract"
    /\ mr_a = <<<<1, 3>>, <<4, 5>>>>
    /\ mr_b = <<<<0, 1>>, <<2, 5>>>>
    /\ mr_last.out = <<<<1, 2>>>>

\* C21: add is order-independent and idempotent: from every list built by
\* add calls, two further adds give the same list in either order, and
\* adding a range a second time changes nothing.
C21_AddCommutesAndIsIdempotent ==
    \A r1 \in ValidRanges :
       /\ add(add(mr_a, r1), r1) = add(mr_a, r1)
       /\ \A r2 \in ValidRanges :
             add(add(mr_a, r1), r2) = add(add(mr_a, r2), r1)

\* A list of two ranges whose last add joined two stored ranges: the ranges
\* it was built from overlap, so their order could have mattered.
C21_Witness ==
    /\ Len(mr_a) = 2
    /\ mr_last.op = "add"
    /\ mr_last.touched = 2

\* C22: split(n) with n > 0 yields, in ascending order, pieces of length at
\* most n, none crossing the boundary of a stored range, and once the
\* iterator is exhausted the pieces make up exactly the stored ranges; with
\* n = 0 it yields every stored range whole; it yields IndexOverflow only
\* when current + n overflows usize.
C22_SplitPieces ==
    split_it.item # "idle"
       => LET out == split_it.out
              n == split_it.n
          IN /\ \A k \in 1..Len(out) :
                   /\ out[k][1] < out[k][2]
                   /\ n > 0 => out[k][2] - out[k][1] <= n
                   /\ \E i \in 1..Len(mr_a) :
                         mr_a[i][1] <= out[k][1] /\ out[k][2] <= mr_a[i][2]
             /\ \A k \in 1..(Len(out) - 1) : out[k][2] <= out[k + 1][1]
             /\ split_it.item = "None" => Cover(out) = Cover(mr_a)
             /\ (split_it.item = "None" /\ n = 0) => out = mr_a
             /\ split_it.item = "IndexOverflow"
                   => n > 0 /\ split_it.current + n > UsizeMax

\* An exhausted split of two stored ranges into pieces of at most 2, one of
\* them a shorter last piece.
C22_Witness ==
    /\ split_it.item = "None"
    /\ split_it.n = 2
    /\ Len(mr_a) = 2
    /\ Len(split_it.out) = 3
    /\ \E k \in 1..3 : split_it.out[k][2] - split_it.out[k][1] = 1

\* The half-open value of each side of the last construction, when it has
\* one: an excluded start and an included end move up by one.
NormStart == IF conv_last.a.kind = "Excluded" THEN conv_last.a.v + 1
             ELSE conv_last.a.v
NormEnd == IF conv_last.b.kind = "Included" THEN conv_last.b.v + 1
           ELSE conv_last.b.v
StartUnbounded == conv_last.a.kind = "Unbounded"
EndUnbounded == conv_last.b.kind = "Unbounded"
StartOverflows == conv_last.a.kind = "Excluded" /\ conv_last.a.v = UsizeMax
EndOverflows == conv_last.b.kind = "Included" /\ conv_last.b.v = UsizeMax

\* C23 as stated: a construction fails with IndexUnbounded when any side is
\* unbounded, with IndexOverflow when its inclusive end or exclusive start
\* is usize::MAX, with InvalidRange unless the half-open start < end, and
\* otherwise gives [start, end).
C23_ConstructionErrors ==
    conv_last.op # "new"
       => /\ (StartUnbounded \/ EndUnbounded)
                => conv_last.out.res = "IndexUnbounded"
          /\ (StartOverflows \/ EndOverflows)
                => conv_last.out.res = "IndexOverflow"
          /\ ~(StartUnbounded \/ EndUnbounded \/ StartOverflows \/ EndOverflows)
                => conv_last.out = IF NormStart < NormEnd
                                   THEN RangeOk(NormStart, NormEnd)
                                   ELSE RangeErr("InvalidRange")

\* C23 amended: the start bound is judged first.  The error is that of the
\* start bound if it has one (IndexUnbounded, or IndexOverflow for an
\* excluded usize::MAX), else that of the end bound (IndexUnbounded, or
\* IndexOverflow for an included usize::MAX), else InvalidRange unless the
\* half-open start < end, and otherwise the result is [start, end).
C23_ConstructionErrorsStartFirst ==
    conv_last.op # "new"
       => conv_last.out =
             IF StartUnbounded THEN RangeErr("IndexUnbounded")
             ELSE IF StartOverflows THEN RangeErr("IndexOverflow")
             ELSE IF EndUnbounded THEN RangeErr("IndexUnbounded")
             ELSE IF EndOverflows THEN RangeErr("IndexOverflow")
             ELSE IF NormStart < NormEnd THEN RangeOk(NormStart, NormEnd)
             ELSE RangeErr("InvalidRange")

\* A conversion whose start bound overflows and whose end is unbounded has
\* answered IndexOverflow.
C23_Witness ==
    /\ conv_last.op = "try_from"
    /\ StartOverflows
    /\ EndUnbounded
    /\ conv_last.out.res = "IndexOverflow"

\* The buffer the last decode call was given holds a whole datagram: the
\* header and as many bytes as its length field says.
HeldDatagram ==
    IF Len(dec_last.before) < HDR_LEN THEN FALSE
    ELSE Len(dec_last.before)
            >= FromBeBytes(dec_last.before[1], dec_last.before[2])

Consumed == Len(dec_last.before) - Len(dec_src)

\* C24: the decoder never gets stuck: whatever the buffer holds, also a
\* length field that is zero or smaller than the header, a decode call
\* either consumes at least one byte or returns "need more" on a buffer that
\* does not yet hold a whole datagram, and it never aborts.
C24_DecoderNeverStuck ==
    dec_last.res # "new"
       => /\ dec_last.res # "panic"
          /\ \/ Consumed >= 1
             \/ dec_last.res = "None" /\ ~HeldDatagram

\* C26: when a complete, correctly versioned datagram has an ill-formed
\* body, decode returns a decode error and leaves the buffer unchanged.
C26_DecodeErrorKeepsBuffer ==
    (/\ dec_last.res \notin {"new", "panic"}
     /\ HeldDatagram
     /\ dec_last.before[3] = PROTOCOL_VERSION
     /\ FromBeBytes(dec_last.before[1], dec_last.before[2]) >= HDR_LEN
     /\ ~BincodeDecode(SubSeq(dec_last.before, HDR_LEN + 1,
                    FromBeBytes(dec_last.before[1], dec_last.before[2]))).ok)
       => /\ dec_last.res = "Err"
          /\ dec_src = dec_last.before

\* The encodings of a sequence of messages, back to back.
RECURSIVE EncodeAll(_)
EncodeAll(ms) ==
    IF ms = <<>> THEN <<>> ELSE encode(Head(ms)).bytes \o EncodeAll(Tail(ms))

\* C25: codec round trip: decode on the bytes of encode(M) returns M and
\* consumes exactly those bytes; on a strict prefix of them it returns "need
\* more" and consumes nothing; messages encoded back to back are decoded in
\* the order they were encoded, and the buffer ends empty.
C25_CodecRoundTrip ==
    /\ dec_src \o wire = EncodeAll(codec_hist.pending)
    /\ ~codec_hist.mismatch
    /\ dec_last.res \notin {"Err", "panic"}
    /\ dec_last.res = "Some"
          => dec_last.before = encode(dec_last.item).bytes \o dec_src
    /\ dec_last.res = "None"
          => /\ dec_src = dec_last.before
             /\ IF codec_hist.pending = <<>> THEN dec_last.before = <<>>
                ELSE Len(dec_last.before)
                        < Len(encode(Head(codec_hist.pending)).bytes)
    /\ (codec_hist.pending = <<>> /\ wire = <<>>) => dec_src = <<>>

\* The first of two messages has been decoded, the second one, which has a
\* payload, is still in the buffer.
C25_Witness ==
    /\ dec_last.res = "Some"
    /\ Len(dec_last.item.payload) = MaxPayload
    /\ Len(codec_hist.pending) = 1
    /\ wire = <<>>
    /\ dec_src = encode(codec_hist.pending[1]).bytes
    /\ codec_hist.pending[1] # dec_last.item

\* The steps of a task's call, and the lock it stands in front of.
Step(t) ==
    IF t \in Writers THEN WriteSteps(t)
    ELSE IF t \in Syncers THEN SyncSteps(t)
    ELSE ReadSteps(t)

Wanted(t) ==
    IF running[t].pc \in {"lock_replace", "lock_cleanup", "lock_dirty"}
    THEN dirty_lock
    ELSE IF running[t].pc = "lock_disk" THEN disk_lock
    ELSE Free

\* C27: no call of write, sync or read holds the guard of dirty and the
\* guard of disk at the same time, and no interleaving of them deadlocks:
\* a call under way can take its next step, or it waits for a lock whose
\* holder can take its next step.
C27_LockDiscipline ==
    \A t \in DOMAIN running :
       /\ ~(dirty_lock = t /\ disk_lock = t)
       /\ (running[t].pc # "idle" /\ ~ENABLED Step(t))
             => /\ Wanted(t) \in DOMAIN running \ {t}
                /\ ENABLED Step(Wanted(t))

\* A write that began while a sync held the disk guard has returned, and
\* that sync is still flushing; the other writer waits for the dirty lock.
C27_Witness ==
    /\ lock_hist.write_in_flush
    /\ \E s \in Syncers : disk_lock = s /\ running[s].pc = "flush"
    /\ \E t \in Writers : running[t].pc = "lock_replace" /\ dirty_lock # Free

\* The last call was a read of one range that no dirty entry touches
\* and that lies within logical_length: read hands the whole range to
\* read_disk_by_range.
DiskReadOf(rgn) ==
    /\ last.op = "read"
    /\ last.mask = <<rgn>>
    /\ rgn[2] <= sync_len_state
    /\ \A k \in DOMAIN dirty : intersect(rgn, k) = NONE

\* C28: a disk read of a range within logical_length that ends beyond, or
\* starts at or beyond, the on-disk length succeeds and returns exactly as
\* many bytes as the range is long: the bytes on disk up to the on-disk
\* length, then zeros.
C28_DiskReadZeroFills ==
    \A s \in 0..MaxAddr : \A e \in (s + 1)..(MaxAddr + 1) :
       (DiskReadOf(<<s, e>>) /\ e > Len(disk))
          => /\ last.res = "Ok"
             /\ Flatten(last.out)
                   = [i \in 1..(e - s) |->
                         IF s + i <= Len(disk) THEN disk[s + i] ELSE 0]

\* C29: logical_length (sync_len_state) never decreases, and in every
\* reachable state it is at least the largest end of the keys of the dirty
\* map.
C29_LogicalLengthCoversDirty ==
    /\ [](\A k \in DOMAIN dirty : k[2] <= sync_len_state)
    /\ [][sync_len_state' >= sync_len_state]_vars

\* A write has raised logical_length and stands before its insert, while
\* the dirty map holds an entry of another write that ends below it.
C29_Witness ==
    /\ DOMAIN dirty # {}
    /\ \E w \in Writers :
          /\ writers[w].pc = "replace"
          /\ writers[w].rgn[2] = sync_len_state
          /\ \A k \in DOMAIN dirty : k[2] < sync_len_state
    /\ sync_len_state > Len(disk)

\* C30: write(buf, offset) with an empty buf is a no-op: the dirty map and
\* logical_length are as they were before the call.
C30_EmptyWriteIsNoOp ==
    [][(last'.op = "write" /\ last'.rgn[1] = last'.rgn[2])
          => (dirty' = dirty /\ sync_len_state' = sync_len_state)]_vars

\* An empty write at an offset beyond logical_length has returned, with
\* entries in the dirty map.
C30_Witness ==
    /\ last.op = "write"
    /\ last.rgn[1] = last.rgn[2]
    /\ last.rgn[1] > sync_len_state
    /\ DOMAIN dirty # {}

\* C31: deacitve adds one to failure_count and saturates (the 8-bit counter
\* never comes back to 0), stores is_healthy = false, and returns a resume
\* task with a timeout of 5 s, 30 s, 60 s for the first, second and third
\* failure in a row, and no task for every later one.
C31_DeacitveSaturates ==
    deact.op \in {"deacitve", "panic"}
       => /\ deact.op = "deacitve"
          /\ deact.l.failure_count = Min(deact.before + 1, U8 - 1)
          /\ ~deact.l.is_healthy
          /\ IF deact.before + 1 <= 3
             THEN /\ deact.task = "Some"
                  /\ deact.timeout = ResumeDelay(deact.before + 1)
                  /\ deact.timeout \in {5, 30, 60}
             ELSE deact.task = "None"

\* C32: whenever no solve call is in progress, the table holds no Bond
\* whose link set is empty.
C32_NoEmptyBond ==
    removing = EmptyBag
       => \A h \in DOMAIN links : links[h].links # <<>>

\* The fourth failure of the only link of a bond has been solved: the link
\* was evicted and the bond, left empty, is gone from the table.
C32_Witness ==
    /\ lastl.op = "solve"
    /\ lastl.res = "Ok"
    /\ link[lastl.id].failure_count = 4
    /\ lastl.host \notin DOMAIN links
    /\ removing = EmptyBag

\* A step of the solve closure of link id.
SolveStepOf(id) ==
    /\ Len(closures') = Len(closures)
    /\ closures'[id] < closures[id]

\* C33: a solve whose link has been dropped (its weak reference dangles)
\* returns LinkRefInvalid and changes nothing: no failure_count, no health
\* flag, no bond, no scheduler queue.
C33_DanglingSolveIsNoOp ==
    [][\A id \in 1..Len(link) :
          (SolveStepOf(id) /\ ~Alive(id))
             => /\ lastl'.op = "solve" /\ lastl'.id = id
                /\ lastl'.res = "LinkRefInvalid"
                /\ link' = link
                /\ links' = links
                /\ removing' = removing
                /\ chan' = chan
                /\ delay_queue' = delay_queue]_vars

\* The closure of an evicted link has been called while another link sits
\* in the bond and a resume task waits in the queue.
C33_Witness ==
    /\ lastl.op = "solve"
    /\ lastl.res = "LinkRefInvalid"
    /\ link[lastl.id].failure_count = 4
    /\ lastl.host \in DOMAIN links
    /\ delay_queue # {}

IsPrefix(p, q) == Len(p) <= Len(q) /\ SubSeq(q, 1, Len(p)) = p

\* C34: a complete datagram whose version byte is not the protocol version
\* is discarded: decode advances the buffer by exactly its length L and
\* returns no message and no error, and a datagram that follows it in the
\* buffer is decoded by the next call.
C34_OtherVersionDiscarded ==
    (/\ dec_last.res # "new"
     /\ HeldDatagram
     /\ dec_last.before[3] # PROTOCOL_VERSION)
       => /\ dec_last.res = "None"
          /\ dec_src = Advance(dec_last.before,
                          FromBeBytes(dec_last.before[1], dec_last.before[2]))
          /\ ~codec_hist.mismatch
          /\ \A M \in Msgs :
                IsPrefix(encode(M).bytes, dec_src)
                   => /\ decode(dec_src).res = "Some"
                      /\ decode(dec_src).item = M
                      /\ M = Head(codec_hist.pending)

\* A datagram of another version has just been discarded, and the whole
\* message encoded after it, one with a payload, is in the buffer.
C34_Witness ==
    /\ dec_last.res = "None"
    /\ HeldDatagram
    /\ dec_last.before[3] # PROTOCOL_VERSION
    /\ Len(codec_hist.pending) = 1
    /\ Len(codec_hist.pending[1].payload) = MaxPayload
    /\ dec_src = encode(codec_hist.pending[1]).bytes

\* A submitted task is in the channel, in the delay queue or has been run.
Pending(tid) ==
    \/ \E i \in 1..Len(chan) : chan[i].tid = tid
    \/ \E e \in delay_queue : e.tid = tid

\* C16: the scheduler runs the callback of every submitted task exactly once
\* and never before its timeout has elapsed since the worker received it: no
\* callback runs twice or early, a task is pending exactly until it has run,
\* and every submitted task is eventually run.
C16_CallbackExactlyOnce ==
    /\ [](\A tid \in 1..Len(tasks) :
             /\ tasks[tid].calls <= 1
             /\ ~tasks[tid].early
             /\ Pending(tid) <=> tasks[tid].calls = 0)
    /\ \A tid \in 1..MaxAssign :
          (Len(tasks) >= tid) ~> (Len(tasks) >= tid /\ tasks[tid].calls = 1)

\* One callback has run while another task is still waiting for its deadline.
C16_Witness ==
    \E a, b \in 1..Len(tasks) :
       /\ tasks[a].calls = 1
       /\ \E e \in delay_queue : e.tid = b /\ e.left > 0

\* C15: recovery does not erase the failure history of a link: once its
\* recovery timeouts have expired, a link that was solved k times in all
\* (k = 1, 2, 3) is healthy again with failure_count still k, and the fourth
\* solve of a link evicts it, with its emptied bond, even when the link
\* recovered between the solves, after which assign answers BondNotFound.
C15_RecoveryKeepsFailureCount ==
    \A id \in 1..Len(link) :
       (removing = EmptyBag)
          => /\ (Alive(id) /\ lhist[id].solved = 0 /\ lhist[id].total \in 1..3)
                   => /\ link[id].is_healthy
                      /\ link[id].failure_count = lhist[id].total
             /\ lhist[id].total = 4
                   => /\ ~Alive(id)
                      /\ (\A j \in 1..Len(link) : j # id => ~Alive(j))
                            => AssignResult(link[id].host) = "BondNotFound"

\* C10: k solve calls in succession on one link, with no recovery between
\* them, leave its failure_count at k for k = 1, 2, 3; the 4th removes the
\* link from its bond and, when that empties the bond, the bond from the
\* table, after which assign(host) answers BondNotFound.
C10_FourthSolveEvicts ==
    \A id \in 1..Len(link) :
       (removing = EmptyBag)
          => /\ lhist[id].solved \in 1..3
                   => link[id].failure_count = lhist[id].solved
             /\ lhist[id].solved = 4
                   => /\ ~Alive(id)
                      /\ \A h \in DOMAIN links : links[h].links # <<>>
                      /\ (\A j \in 1..Len(link) : j # id => ~Alive(j))
                            => AssignResult(link[id].host) = "BondNotFound"

\* C35: encode appends to dst the length L = body length + 3 as two
\* big-endian bytes, the version byte and the body; when L exceeds u16::MAX
\* it fails and dst is as it was.
C35_EncodeFrames ==
    enc_last.res # "new" =>
        LET body == BincodeEncode(enc_last.item)
            L == Len(body) + HDR_LEN
        IN IF L > U16Max
           THEN enc_last.res = "Err" /\ enc_last.dst = enc_last.before
           ELSE /\ enc_last.res = "Ok"
                /\ enc_last.dst =
                      enc_last.before \o <<L \div ByteBase, L % ByteBase>>
                          \o <<PROTOCOL_VERSION>> \o body

\* An encode of a message one byte too long, into a dst that holds a
\* datagram already.
C35_Witness ==
    /\ enc_last.res = "Err"
    /\ enc_last.before # <<>>
    /\ Len(BincodeEncode(enc_last.item)) + HDR_LEN = U16Max + 1

\* C36: a turn of the Outbound worker never solves a link.  Whatever becomes
\* of the message (assign fails, no sink, the send fails, or it is sent),
\* every link keeps its failure_count and its is_healthy, no bond, pending
\* removal or resume task changes, and the worker has taken the event and is
\* back at rx.recv().
C36_OutboundNeverSolves ==
    [][outbound'.events # outbound.events =>
          /\ Len(link') = Len(link)
          /\ \A id \in 1..Len(link) :
                /\ link'[id].failure_count = link[id].failure_count
                /\ link'[id].is_healthy = link[id].is_healthy
          /\ UNCHANGED <<links, removing, chan, delay_queue, closures>>
          /\ outbound'.events = outbound.events + 1
          /\ outbound'.res \in {"BondNotFound", "LinksNotFound"}
                                    \cup SinkOutcomes]_vars

\* The worker has dropped its last message because the send failed; the
\* link it was assigned is still healthy and has no failure counted, next to
\* a link that another user of the table has solved.
C36_Witness ==
    /\ outbound.res = "SendFailed"
    /\ outbound.events = MaxEvents
    /\ link[outbound.id].is_healthy
    /\ link[outbound.id].failure_count = 0
    /\ \E id \in 1..Len(link) : ~link[id].is_healthy

\* C37: eviction removes only the links it evicts.  A link that no solve has
\* ever deactivated is still in its bond, whatever solves of other links and
\* updates of the same bond ran next to each other.
C37_EvictionKeepsNewLinks ==
    \A id \in 1..Len(link) : lhist[id].total = 0 => Alive(id)

\* C38: no link is left unhealthy for good.  A link that is unhealthy and
\* still in its bond has a resume task in the scheduler's channel or in its
\* delay queue, or the removal of its bond is under way.
C38_UnhealthyLinkRecovers ==
    \A id \in 1..Len(link) :
        Alive(id) /\ ~link[id].is_healthy =>
            \/ \E i \in 1..Len(chan) : chan[i].id = id
            \/ \E e \in delay_queue : e.id = id
            \/ BagIn(link[id].host, removing)

\* C40: the sequence of split(n) is finite.  After an IndexOverflow the
\* iterator ends or goes on to the next range, so it yields that error at
\* most once for each range of the multi-range.
C40_SplitIsFinite ==
    split_it.item # "idle" => split_it.errs <= Len(mr_a)

\* C39: sync is invisible to readers.  With no write after the sync has
\* started, the dirty map keeps what it held until the sync's cleanup, so
\* up to there a read without the sync is a read of that map and of the file
\* as it was opened: the read that returned has the same result and bytes.
C39_SyncInvisibleToReaders ==
    (last.op = "read" /\ syncers["s1"].pc # "idle") =>
        \E orders \in ReadOrders(dirty, last.mask) :
           \E r \in ReadFrom(dirty, disk0, sync_len_state, last.mask,
                              orders, 1) :
              /\ r.res = last.res
              /\ Flatten(r.out) = Flatten(last.out)

====
